---- MODULE Spec2Model ----
(***************************************************************************)
(* Lock protocol, scoped guards and memory-mapping flags of tensordict     *)
(* containers (tensordict/base.py), of the TensorDictParams wrapper        *)
(* (tensordict/nn/params.py) and the entry stores of a tensorclass         *)
(* (tensordict/tensorclass.py).                                            *)
(***************************************************************************)
EXTENDS Integers, Sequences, FiniteSets, TLC

(***************************************************************************)
(* Bounds of the model.                                                    *)
(***************************************************************************)
\* longest list of recorded lock parents a container may hold
MaxParents == 3
\* deepest nesting of open `with` regions
MaxDepth == 2
\* most entries a container's _last_op_queue may hold
MaxQueue == 2
\* number of chunks a call of map splits the container into
NumChunks == 3
\* most batch dimensions of a container
MaxDims == 3
\* most entries of one container in the nested-key operations
MaxEntries == 2
\* number of batch elements of a leaf
BatchSize == 2

(***************************************************************************)
(* The object graph.  Plain containers are TensorDictBase instances, "p"   *)
(* is a TensorDictParams wrapper hosting the plain container "t".          *)
(*   r1 = {p, a}   a = {c}   r2 = {c}   r3 = {t}   p hosts t               *)
(* c is held by two containers; t is held by the wrapper and by r3.        *)
(***************************************************************************)
Wrappers == {"p"}
Plain == {"r1", "r2", "r3", "a", "c", "t"}
Nodes == Plain \cup Wrappers

\* the container a TensorDictParams wrapper hosts (self._param_td)
_param_td(w) == "t"

\* self.values() restricted to tensor collections, in insertion order
values(n) ==
  CASE n = "r1" -> <<"p", "a">>
    [] n = "a" -> <<"c">>
    [] n = "r2" -> <<"c">>
    [] n = "r3" -> <<"t">>
    [] OTHER -> <<>>

VARIABLES
  \* n._is_locked
  _is_locked,
  \* n._is_memmap and n._is_shared (plain containers)
  _is_memmap,
  _is_shared,
  \* n._lock_parents_weakrefs, as the sequence of referents
  _lock_parents_weakrefs,
  \* n._last_op_queue: what __enter__ pushed and __exit__ has not popped
  _last_op_queue,
  \* the `lock` argument the wrapper was built with (self._lock_content)
  _lock_content,
  \* the open `with` regions, innermost last
  regions,
  \* the entries of the plain container "t": key -> value
  entries,
  \* the two stores of a tensorclass instance whose _tensordict is "c"
  _tensordict,
  _non_tensordict,
  \* a running call of map: its arguments, the chunks the workers have
  \* finished, the position of the loop over imap and what it has placed
  map_call,
  \* the last shape operation called: its arguments, what it raised or
  \* returned, what its view shows and what the declared inverse gives
  shape_call,
  \* the last call of flatten_keys or unflatten_keys: the container it was
  \* made on, what it raised, the receiver afterwards and the result
  keys_call,
  \* the last call of set_at_ or update_at_: its arguments, the stores of
  \* the receiver before and after, what it raised
  at_call,
  \* the last call of state_dict or load_state_dict: its arguments, what it
  \* raised, what it returned and the receiver afterwards
  sd_call,
  \* the last stack of non-tensor leaves: the leaves, dim and the result
  stack_call,
  \* a non-tensor value shared between processes: the shared object, and
  \* what each process is doing with it
  shm,
  workers,
  \* the last call made: its name, its receiver and what it raised
  ret

vars == <<_is_locked, _is_memmap, _is_shared, _lock_parents_weakrefs,
          _last_op_queue, _lock_content, regions, entries, _tensordict,
          _non_tensordict, map_call, shape_call, keys_call, at_call,
          sd_call, stack_call, shm, workers, ret>>

\* the entry stores, which the lock protocol never touches
stores == <<entries, _tensordict, _non_tensordict>>

\* the calls and the shared value added to the state last
late == <<sd_call, stack_call, shm, workers>>

\* the state that neither the lock protocol nor the entry stores touch
rest == <<map_call, shape_call, keys_call, at_call, late>>

\* the state that map never touches, besides the lock state and the stores
others == <<shape_call, keys_call, at_call, late>>

\* the fields the lock protocol reads and writes, as one value
Heap == [locked |-> _is_locked, memmap |-> _is_memmap, shared |-> _is_shared,
         parents |-> _lock_parents_weakrefs]

RECURSIVE SeqToSet(_)
SeqToSet(s) == IF s = <<>> THEN {} ELSE {Head(s)} \cup SeqToSet(Tail(s))

\* the containers n holds directly: its values, or the hosted container
Holds(n) == IF n \in Wrappers THEN {_param_td(n)} ELSE SeqToSet(values(n))

RECURSIVE Descendants(_)
Descendants(n) == Holds(n) \cup UNION {Descendants(m) : m \in Holds(n)}

Subtree(n) == {n} \cup Descendants(n)
Ancestors(d) == {c \in Nodes : d \in Descendants(c)}

(***************************************************************************)
(* lock_                                                                   *)
(***************************************************************************)
RECURSIVE _propagate_lock(_, _, _), _propagate_lock_values(_, _, _)

\* TensorDictBase._propagate_lock and TensorDictParams._propagate_lock.
\* lp is the list the caller passes; the result carries that list as the
\* callee leaves it, since the wrapper appends to the caller's list object.
_propagate_lock(h, n, lp) ==
  LET h1 == [h EXCEPT !.locked[n] = TRUE, !.parents[n] = @ \o lp]
  IN IF n \in Wrappers
     THEN LET lp1 == Append(lp, n)
          IN IF ~h1.locked[_param_td(n)]
             THEN [h |-> _propagate_lock(h1, _param_td(n), lp1).h, lp |-> lp1]
             ELSE [h |-> h1, lp |-> lp1]
     ELSE [h |-> _propagate_lock_values(h1, values(n), Append(lp, n)).h,
           lp |-> lp]

\* the loop `for value in self.values(): value._propagate_lock(lp)`
_propagate_lock_values(h, vs, lp) ==
  IF vs = <<>> THEN [h |-> h, lp |-> lp]
  ELSE LET r == _propagate_lock(h, Head(vs), lp)
       IN _propagate_lock_values(r.h, Tail(vs), r.lp)

\* lock_ without the early return for a container that is locked already
lock_always(h, n) == _propagate_lock(h, n, <<>>).h

\* TensorDictBase.lock_ (TensorDictParams.lock_ is the same function)
lock_(h, n) ==
  IF h.locked[n] THEN h ELSE _propagate_lock(h, n, <<>>).h

(***************************************************************************)
(* unlock_                                                                 *)
(***************************************************************************)
RECURSIVE _propagate_unlock(_, _, _), _propagate_unlock_values(_, _, _, _)

\* TensorDictBase._propagate_unlock and TensorDictParams._propagate_unlock.
\* Result: the heap, the list sub_tds, none = the call returned None, and
\* err = "TypeError" when extending sub_tds by None aborted the walk.
_propagate_unlock(h, lc, n) ==
  IF n \in Wrappers
  THEN LET h1 == [h EXCEPT !.locked[n] = FALSE]
       IN IF ~lc
          THEN _propagate_unlock(h1, lc, _param_td(n))
          ELSE [h |-> h1, sub |-> <<>>, none |-> TRUE, err |-> "none"]
  ELSE LET h1 == [h EXCEPT !.locked[n] = FALSE, !.shared[n] = FALSE,
                            !.memmap[n] = FALSE]
       IN _propagate_unlock_values(h1, lc, values(n), <<>>)

\* the loop over self.values() of TensorDictBase._propagate_unlock
_propagate_unlock_values(h, lc, vs, sub) ==
  IF vs = <<>> THEN [h |-> h, sub |-> sub, none |-> FALSE, err |-> "none"]
  ELSE LET r == _propagate_unlock(h, lc, Head(vs))
       IN IF r.err # "none" THEN r
          ELSE IF r.none
          THEN [h |-> r.h, sub |-> sub, none |-> FALSE, err |-> "TypeError"]
          ELSE _propagate_unlock_values(r.h, lc, Tail(vs),
                                        Append(sub \o r.sub, Head(vs)))

\* the test of TensorDictBase._check_unlock: a recorded parent is locked
_check_unlock_raises(h, n) ==
  \E i \in 1..Len(h.parents[n]) : h.locked[h.parents[n][i]]

\* TensorDictBase._check_unlock when it does not raise
_check_unlock(h, n) == [h EXCEPT !.parents[n] = <<>>]

RECURSIVE _check_unlock_all(_, _)
\* `for sub_td in sub_tds: sub_td._check_unlock()` then `self._check_unlock()`
_check_unlock_all(h, tds) ==
  IF tds = <<>> THEN [h |-> h, raised |-> FALSE]
  ELSE IF _check_unlock_raises(h, Head(tds)) THEN [h |-> h, raised |-> TRUE]
  ELSE _check_unlock_all(_check_unlock(h, Head(tds)), Tail(tds))

\* TensorDictBase.unlock_ (TensorDictParams.unlock_ is the same function)
unlock_(h, lc, n) ==
  LET r == _propagate_unlock(h, lc, n)
  IN IF r.err # "none" \/ r.none THEN [h |-> r.h, exc |-> "TypeError"]
     ELSE LET c == _check_unlock_all(r.h, Append(r.sub, n))
          IN IF c.raised THEN [h |-> lock_(c.h, n), exc |-> "RuntimeError"]
             ELSE [h |-> c.h, exc |-> "none"]

(***************************************************************************)
(* Memory mapping and shared memory                                        *)
(***************************************************************************)
\* TensorDictBase.is_memmap / is_shared; the wrapper answers for the
\* container it hosts (_fallback_property)
is_memmap(h, n) == IF n \in Wrappers THEN h.memmap[_param_td(n)] ELSE h.memmap[n]
is_shared(h, n) == IF n \in Wrappers THEN h.shared[_param_td(n)] ELSE h.shared[n]

\* _memmap_(inplace=True): every container of the subtree is marked
\* memory-mapped, and no longer shared
_memmap_(h, n) ==
  [h EXCEPT !.memmap = [m \in Plain |-> IF m \in Subtree(n) THEN TRUE ELSE @[m]],
            !.shared = [m \in Plain |-> IF m \in Subtree(n) THEN FALSE ELSE @[m]]]

\* TensorDictBase.memmap_: only the path without a thread pool locks
memmap_(h, n, num_threads) ==
  IF num_threads > 1 THEN _memmap_(h, n) ELSE lock_(_memmap_(h, n), n)

\* TensorDictBase.memmap and memmap_like: is the new container locked
memmap(num_threads) == ~(num_threads > 1)

\* what the memmap family hands back: a TensorDictFuture or the container
memmap_handle(num_threads, return_early) ==
  IF num_threads > 1 /\ return_early THEN "future" ELSE "container"

\* may leaf writes still be running when the memmap family returns: only
\* the threaded path submits writes, and it waits for them unless
\* return_early
memmap_pending(num_threads, return_early) == num_threads > 1 /\ return_early

\* share_memory_: marks the subtree shared and locks it
share_memory_(h, n) ==
  lock_([h EXCEPT !.shared = [m \in Plain |-> IF m \in Subtree(n) THEN TRUE ELSE @[m]]], n)

(***************************************************************************)
(* Scoped guards                                                           *)
(***************************************************************************)
\* as_decorator("is_locked"): the operation is recorded as _last_op only
\* when it changed is_locked
as_decorator(name, pre, post) == IF post # pre THEN name ELSE "None"

(***************************************************************************)
(* Entry stores.  A store maps each key to a tensor value, to "td" (a      *)
(* nested container) or to Absent.  Every operation takes the store e and  *)
(* the lock flag L of its container and returns the store it leaves and    *)
(* the exception it raises.                                                *)
(***************************************************************************)
Keys == {"x", "y"}
KeyOrder == <<"x", "y">>
Vals == {"v0", "v1"}
Absent == "absent"

has(e, key) == e[key] # Absent
keys(e) == {k \in Keys : has(e, k)}
Done(e) == [e |-> e, exc |-> "none"]
Raise(e, exc) == [e |-> e, exc |-> exc]

\* inplace is "False", "True" or "BEST" (BEST_ATTEMPT_INPLACE)
_convert_inplace(e, inplace, key) ==
  IF inplace # "False"
  THEN IF inplace = "True" /\ ~has(e, key)
       THEN [inplace |-> FALSE, exc |-> "KeyError"]
       ELSE [inplace |-> has(e, key), exc |-> "none"]
  ELSE [inplace |-> FALSE, exc |-> "none"]

\* a write that is not in place is refused on a locked container
_set_str(e, L, key, value, inplace) ==
  LET ci == _convert_inplace(e, inplace, key)
  IN IF ci.exc # "none" THEN Raise(e, ci.exc)
     ELSE IF ~ci.inplace /\ L THEN Raise(e, "RuntimeError")
     ELSE Done([e EXCEPT ![key] = value])

set(e, L, key, item, inplace) ==
  _set_str(e, L, key, item, IF inplace THEN "BEST" ELSE "False")

set_(e, L, key, item) == _set_str(e, L, key, item, "True")

_set_at_str(e, key, value) ==
  IF ~has(e, key) THEN Raise(e, "KeyError") ELSE Done([e EXCEPT ![key] = value])

set_at_(e, key, value) == _set_at_str(e, key, value)

\* the input's entries are written one after the other; a raise keeps the
\* writes already made
RECURSIVE update_items(_, _, _, _, _)
update_items(e, L, input, inplace, ks) ==
  IF ks = <<>> THEN Done(e)
  ELSE IF ~has(input, Head(ks)) THEN update_items(e, L, input, inplace, Tail(ks))
  ELSE LET r == _set_str(e, L, Head(ks), input[Head(ks)],
                         IF inplace THEN "BEST" ELSE "False")
       IN IF r.exc # "none" THEN r
          ELSE update_items(r.e, L, input, inplace, Tail(ks))

update(e, L, input, inplace) == update_items(e, L, input, inplace, KeyOrder)

\* copies onto the entries the receiver already has; other input keys are
\* passed over
update_(e, input) ==
  Done([k \in Keys |-> IF has(e, k) /\ has(input, k) THEN input[k] ELSE e[k]])

del_(e, L, key) ==
  IF L THEN Raise(e, "RuntimeError")
  ELSE IF ~has(e, key) THEN Raise(e, "KeyError")
  ELSE Done([e EXCEPT ![key] = Absent])

rename_key_(e, L, old_key, new_key, safe) ==
  IF L THEN Raise(e, "RuntimeError")
  ELSE IF ~has(e, old_key) THEN Raise(e, "KeyError")
  ELSE IF safe /\ has(e, new_key) THEN Raise(e, "KeyError")
  ELSE Done([e EXCEPT ![new_key] = e[old_key], ![old_key] = Absent])

popitem(e, L) ==
  IF L THEN Raise(e, "RuntimeError")
  ELSE IF keys(e) = {} THEN Raise(e, "KeyError")
  ELSE LET k == IF has(e, "y") THEN "y" ELSE "x"
       IN Done([e EXCEPT ![k] = Absent])

_create_nested_str(e, L, key) == _set_str(e, L, key, "td", "False")

create_nested(e, L, key) ==
  IF L THEN Raise(e, "RuntimeError") ELSE _create_nested_str(e, L, key)

clear(e, L) ==
  IF L THEN Raise(e, "RuntimeError") ELSE Done([k \in Keys |-> Absent])

\* get raises KeyError for a missing key without default, before del_ runs
pop(e, L, key, default) ==
  IF ~has(e, key) /\ ~default THEN Raise(e, "KeyError")
  ELSE LET r == del_(e, L, key)
       IN IF r.exc = "KeyError" THEN Done(e) ELSE r

(***************************************************************************)
(* Tensorclass: tensor fields live in _tensordict (td), the others in      *)
(* _non_tensordict (ntd).  L is the lock flag of _tensordict.              *)
(***************************************************************************)
NonTensor == {"s", "None"}
TcDone(td, ntd) == [td |-> td, ntd |-> ntd, exc |-> "none"]
TcRaise(td, ntd, exc) == [td |-> td, ntd |-> ntd, exc |-> exc]

\* dict.update of the non-tensor store
ntd_update(ntd, input) ==
  [k \in Keys |-> IF input[k] \in NonTensor THEN input[k] ELSE ntd[k]]

\* the tensor entries of an input
tensors(input) == [k \in Keys |-> IF input[k] \in Vals THEN input[k] ELSE Absent]

_set(td, ntd, L, key, value, inplace) ==
  IF L THEN TcRaise(td, ntd, "RuntimeError")
  ELSE IF value \in Vals
  THEN IF has(ntd, key) /\ inplace THEN TcRaise(td, ntd, "RuntimeError")
       ELSE LET ntd1 == [ntd EXCEPT ![key] = Absent]
                r == set(td, L, key, value, inplace)
            IN [td |-> r.e, ntd |-> ntd1, exc |-> r.exc]
  ELSE IF has(td, key) /\ inplace THEN TcRaise(td, ntd, "RuntimeError")
       ELSE LET r == IF has(td, key) THEN del_(td, L, key) ELSE Done(td)
            IN IF r.exc # "none" THEN TcRaise(td, ntd, r.exc)
               ELSE TcDone(r.e, [ntd EXCEPT ![key] = value])

_del_(td, ntd, L, key) ==
  IF has(td, key)
  THEN LET r == del_(td, L, key) IN [td |-> r.e, ntd |-> ntd, exc |-> r.exc]
  ELSE IF has(ntd, key) THEN TcDone(td, [ntd EXCEPT ![key] = "None"])
  ELSE TcRaise(td, ntd, "KeyError")

_set_at_(td, ntd, key, value) ==
  LET ntd1 == [ntd EXCEPT ![key] = Absent]
      r == set_at_(td, key, value)
  IN [td |-> r.e, ntd |-> ntd1, exc |-> r.exc]

\* kind is "tensorclass" (also a dict, turned into one by from_dict) or
\* "tensordict"
_update(td, ntd, L, input, kind, inplace) ==
  LET r == update(td, L, tensors(input), IF kind = "tensorclass" THEN FALSE ELSE inplace)
  IN IF r.exc # "none" THEN TcRaise(r.e, ntd, r.exc)
     ELSE TcDone(r.e, ntd_update(ntd, input))

_update_(td, ntd, input) ==
  LET r == update_(td, tensors(input)) IN TcDone(r.e, ntd_update(ntd, input))

(***************************************************************************)
(* Calls on the stores                                                     *)
(***************************************************************************)
NoInput == [k \in Keys |-> Absent]
Inputs == [Keys -> {"v1", Absent}]
TcInputs == [Keys -> {"v1", "s", Absent}]
Other(key) == IF key = "x" THEN "y" ELSE "x"

\* flag is the call's inplace, safe or default argument
MkCall(op, key, value, flag, input, kind) ==
  [op |-> op, key |-> key, value |-> value, flag |-> flag, input |-> input,
   kind |-> kind]

\* the call of a step that is no call on a store
NoCall == MkCall("", "", "", FALSE, NoInput, "")

StoreCalls ==
  {MkCall("set", k, "v1", f, NoInput, "") : k \in Keys, f \in BOOLEAN}
  \cup {MkCall(op, k, "v1", FALSE, NoInput, "") :
          op \in {"set_", "set_at_"}, k \in Keys}
  \cup {MkCall("update", "", "", f, i, "") : f \in BOOLEAN, i \in Inputs}
  \cup {MkCall("update_", "", "", FALSE, i, "") : i \in Inputs}
  \cup {MkCall(op, k, "", FALSE, NoInput, "") :
          op \in {"del_", "create_nested"}, k \in Keys}
  \cup {MkCall(op, k, "", f, NoInput, "") :
          op \in {"rename_key_", "pop"}, k \in Keys, f \in BOOLEAN}
  \cup {MkCall(op, "", "", FALSE, NoInput, "") : op \in {"clear", "popitem"}}

TcCalls ==
  {MkCall("set", k, v, f, NoInput, "") :
     k \in Keys, v \in {"v1", "s"}, f \in BOOLEAN}
  \cup {MkCall("set_at_", k, "v1", FALSE, NoInput, "") : k \in Keys}
  \cup {MkCall("del_", k, "", FALSE, NoInput, "") : k \in Keys}
  \cup {MkCall("update", "", "", f, i, "tensordict") :
          f \in BOOLEAN, i \in TcInputs}
  \cup {MkCall("update", "", "", f, i, "tensorclass") :
          f \in BOOLEAN, i \in [Keys -> {"v1", "s"}]}
  \cup {MkCall("update_", "", "", FALSE, i, "tensordict") : i \in TcInputs}
  \cup {MkCall("update_", "", "", FALSE, i, "tensorclass") :
          i \in [Keys -> {"v1", "s"}]}

\* the method of a plain container that a call names
invoke(e, L, c) ==
  CASE c.op = "set" -> set(e, L, c.key, c.value, c.flag)
    [] c.op = "set_" -> set_(e, L, c.key, c.value)
    [] c.op = "set_at_" -> set_at_(e, c.key, c.value)
    [] c.op = "update" -> update(e, L, c.input, c.flag)
    [] c.op = "update_" -> update_(e, c.input)
    [] c.op = "del_" -> del_(e, L, c.key)
    [] c.op = "create_nested" -> create_nested(e, L, c.key)
    [] c.op = "rename_key_" -> rename_key_(e, L, c.key, Other(c.key), c.flag)
    [] c.op = "pop" -> pop(e, L, c.key, c.flag)
    [] c.op = "clear" -> clear(e, L)
    [] c.op = "popitem" -> popitem(e, L)

\* the method of a tensorclass that a call names
tc_invoke(td, ntd, L, c) ==
  CASE c.op = "set" -> _set(td, ntd, L, c.key, c.value, c.flag)
    [] c.op = "set_at_" -> _set_at_(td, ntd, c.key, c.value)
    [] c.op = "del_" -> _del_(td, ntd, L, c.key)
    [] c.op = "update" -> _update(td, ntd, L, c.input, c.kind, c.flag)
    [] c.op = "update_" -> _update_(td, ntd, c.input)

\* wrapper methods that run on the hosted container's data without a
\* lock check
_apply_on_data == {"set_", "set_at_", "update_"}

(***************************************************************************)
(* Chunked map.  The container is split along dim into the chunks          *)
(* 1..NumChunks, every chunk covering one position; fn is run on the       *)
(* chunks by the workers of a pool and the loop over pool.imap receives    *)
(* the results in the order of the chunks.                                 *)
(***************************************************************************)
Chunks == 1..NumChunks

\* no call of map is running
NoMap == [pc |-> "idle", out |-> "none", fn_none |-> [i \in Chunks |-> FALSE],
          done |-> {}, next |-> 1, start |-> 1, placed |-> [i \in Chunks |-> 0],
          imaplist |-> <<>>]

\* torch.cat(imaplist, dim): the results one after the other from position 1
cat(imaplist) ==
  [pos \in Chunks |-> IF pos <= Len(imaplist) THEN imaplist[pos] ELSE 0]

(***************************************************************************)
(* Shape operations.  A container is known by its batch axes: a sequence   *)
(* of axes, each with the id of the source axis it shows (0 for an axis    *)
(* that unsqueeze inserted) and its size.  Two containers with the same    *)
(* axes have the same batch_shape and the same leaf values.  Dimensions    *)
(* are counted from 0 as in the source.                                    *)
(***************************************************************************)
Sizes == {1, 2}
Shapes == UNION {[1..n -> Sizes] : n \in 0..MaxDims}
Dims == (0 - MaxDims - 1)..(MaxDims + 1)

\* an axis of size 1 holds no layout: it has id 0 wherever it stands
Container(shape) ==
  [i \in 1..Len(shape) |-> [id |-> IF shape[i] = 1 THEN 0 ELSE i, size |-> shape[i]]]
batch_size(c) == [i \in 1..Len(c) |-> c[i].size]
batch_dims(c) == Len(c)

RECURSIVE prod(_)
prod(shape) == IF shape = <<>> THEN 1 ELSE Head(shape) * prod(Tail(shape))

numel(c) == prod(batch_size(c))

Insert(c, dim, axis) == SubSeq(c, 1, dim) \o <<axis>> \o SubSeq(c, dim + 1, Len(c))
Remove(c, dim) == SubSeq(c, 1, dim) \o SubSeq(c, dim + 2, Len(c))

\* the keyword arguments of a shape operation
Kw(dim, dim0, dim1, size, dims) ==
  [dim |-> dim, dim0 |-> dim0, dim1 |-> dim1, size |-> size, dims |-> dims]
NoKw == Kw(0, 0, 0, <<>>, <<>>)

\* wrap(d, n): a negative dimension counts from the end
wrap(d, n) == IF d < 0 THEN n + d ELSE d

\* the operation of the tensor library that a view applies to the leaves:
\* the container it gives, or the error it raises
apply_op(c, op, kw) ==
  CASE op = "unsqueeze" ->
         IF kw.dim < 0 \/ kw.dim > Len(c) THEN [c |-> c, exc |-> "IndexError"]
         ELSE [c |-> Insert(c, kw.dim, [id |-> 0, size |-> 1]), exc |-> "none"]
    [] op = "squeeze" ->
         IF kw.dim < 0 \/ kw.dim >= Len(c) THEN [c |-> c, exc |-> "IndexError"]
         ELSE IF c[kw.dim + 1].size = 1 THEN [c |-> Remove(c, kw.dim), exc |-> "none"]
         ELSE [c |-> c, exc |-> "none"]
    [] op = "view" ->
         IF prod(kw.size) # numel(c) THEN [c |-> c, exc |-> "RuntimeError"]
         ELSE [c |-> Container(kw.size), exc |-> "none"]
    [] op = "transpose" ->
         IF kw.dim0 < 0 \/ kw.dim0 >= Len(c) \/ kw.dim1 < 0 \/ kw.dim1 >= Len(c)
         THEN [c |-> c, exc |-> "IndexError"]
         ELSE [c |-> [i \in 1..Len(c) |->
                        IF i = kw.dim0 + 1 THEN c[kw.dim1 + 1]
                        ELSE IF i = kw.dim1 + 1 THEN c[kw.dim0 + 1] ELSE c[i]],
               exc |-> "none"]
    [] op = "permute" ->
         [c |-> [i \in 1..Len(c) |-> c[wrap(kw.dims[i], Len(c)) + 1]],
          exc |-> "none"]

\* what a legacy shape operation hands back: an error, self, or a view node
\* with its operation and the inverse it declares
RaiseShape(exc) == [exc |-> exc, view |-> FALSE, custom_op |-> "", custom_op_kwargs |-> NoKw,
                    inv_op |-> "", inv_op_kwargs |-> NoKw]
Self == RaiseShape("none")
View(custom_op, custom_op_kwargs, inv_op, inv_op_kwargs) ==
  [exc |-> "none", view |-> TRUE, custom_op |-> custom_op,
   custom_op_kwargs |-> custom_op_kwargs, inv_op |-> inv_op,
   inv_op_kwargs |-> inv_op_kwargs]

_legacy_unsqueeze(c, dim0) ==
  LET dim == IF dim0 < 0 THEN batch_dims(c) + dim0 + 1 ELSE dim0
  IN IF dim > batch_dims(c) \/ dim < 0 THEN RaiseShape("RuntimeError")
     ELSE View("unsqueeze", [NoKw EXCEPT !.dim = dim], "squeeze", [NoKw EXCEPT !.dim = dim])

_legacy_squeeze(c, dim0) ==
  LET dim == IF dim0 < 0 THEN batch_dims(c) + dim0 ELSE dim0
  IN IF batch_dims(c) # 0 /\ (dim >= batch_dims(c) \/ dim < 0)
     THEN RaiseShape("RuntimeError")
     \* no batch dimension: self.batch_size[dim] of an empty size
     ELSE IF dim < 0 THEN RaiseShape("IndexError")
     ELSE IF dim >= batch_dims(c) \/ c[dim + 1].size # 1 THEN Self
     ELSE View("squeeze", [NoKw EXCEPT !.dim = dim], "unsqueeze", [NoKw EXCEPT !.dim = dim])

_legacy_view(c, shape) ==
  IF prod(shape) # numel(c) THEN RaiseShape("RuntimeError")
  ELSE IF shape = batch_size(c) THEN Self
  ELSE View("view", [NoKw EXCEPT !.size = shape], "view", [NoKw EXCEPT !.size = batch_size(c)])

_legacy_transpose(c, d0, d1) ==
  LET dim0 == wrap(d0, batch_dims(c))
      dim1 == wrap(d1, batch_dims(c))
  IN IF dim0 < 0 \/ dim1 < 0 THEN RaiseShape("ValueError")
     ELSE IF dim0 = dim1 THEN Self
     ELSE View("transpose", [NoKw EXCEPT !.dim0 = dim0, !.dim1 = dim1],
               "transpose", [NoKw EXCEPT !.dim0 = dim0, !.dim1 = dim1])

\* transpose: the legacy form under lazy_legacy(), else the checks of the
\* eager form and then _transpose, whose result is not a view node
transpose(c, d0, d1, lazy) ==
  IF lazy THEN _legacy_transpose(c, d0, d1)
  ELSE LET ndim == batch_dims(c)
           dim0 == wrap(d0, ndim)
           dim1 == wrap(d1, ndim)
       IN IF dim0 < 0 \/ dim1 < 0 \/ dim0 >= ndim \/ dim1 >= ndim
          THEN RaiseShape("ValueError")
          ELSE Self

\* the loop over dims_list: the first offending index decides the error
RECURSIVE permute_check(_, _, _)
permute_check(dims_list, n, seen) ==
  IF dims_list = <<>> THEN "none"
  ELSE LET idx == Head(dims_list)
       IN IF idx < 0 - n \/ idx > n - 1 THEN "IndexError"
          ELSE IF wrap(idx, n) \in seen THEN "RuntimeError"
          ELSE permute_check(Tail(dims_list), n, seen \cup {wrap(idx, n)})

_legacy_permute(c, dims_list) ==
  IF Len(dims_list) # batch_dims(c) THEN RaiseShape("RuntimeError")
  ELSE IF dims_list = [i \in 1..batch_dims(c) |-> i - 1] THEN Self
  ELSE LET exc == permute_check(dims_list, batch_dims(c), {})
       IN IF exc # "none" THEN RaiseShape(exc)
          ELSE View("permute", [NoKw EXCEPT !.dims = dims_list],
                    "permute", [NoKw EXCEPT !.dims = dims_list])

(***************************************************************************)
(* Nested keys.  A key is a string, written as the sequence of its         *)
(* characters so that joining and splitting are computed; a container is   *)
(* the sequence of its entries in insertion order; a value is a leaf or a  *)
(* sub-container.  A leaf holds the path it was built at.                  *)
(***************************************************************************)
separator == "."
Names == {<<"a">>, <<"b">>, <<"a", ".", "b">>, <<"a", ".", "b", ".", "a">>}

leaf(val) == [kind |-> "leaf", val |-> val, sub |-> <<>>]
subtd(sub) == [kind |-> "td", val |-> <<>>, sub |-> sub]
entry(key, value) == [key |-> key, value |-> value]

Orders(S) ==
  {ks \in UNION {[1..n -> S] : n \in 0..MaxEntries} :
     \A i, j \in 1..Len(ks) : i # j => ks[i] # ks[j]}

\* the sub-containers tried: empty, or with one leaf
SubContainers(parent) ==
  {<<>>} \cup {<<entry(k, leaf(<<parent, k>>))>> : k \in {<<"b">>}}

RootValues(key) == {leaf(<<key>>)} \cup {subtd(sub) : sub \in SubContainers(key)}

KeyContainers ==
  UNION {{c \in [1..Len(ks) -> UNION {{entry(k, v) : v \in RootValues(k)} : k \in Names}] :
            \A i \in 1..Len(ks) : c[i].key = ks[i]} : ks \in Orders(Names)}

\* separator.join(key)
RECURSIVE join(_, _)
join(sep, key) ==
  IF Len(key) = 1 THEN key[1] ELSE key[1] \o <<sep>> \o join(sep, Tail(key))

\* key.split(separator) and `separator in key`
contains(key, sep) == \E i \in 1..Len(key) : key[i] = sep
RECURSIVE split(_, _)
split(key, sep) ==
  IF ~contains(key, sep) THEN <<key>>
  ELSE LET i == CHOOSE i \in 1..Len(key) :
                  key[i] = sep /\ \A j \in 1..(i - 1) : key[j] # sep
       IN <<SubSeq(key, 1, i - 1)>> \o split(SubSeq(key, i + 1, Len(key)), sep)

index(c, key) ==
  IF \E i \in 1..Len(c) : c[i].key = key
  THEN CHOOSE i \in 1..Len(c) : c[i].key = key ELSE 0

root_keys(c) == {c[i].key : i \in 1..Len(c)}

\* self.items(include_nested=True, leaves_only=True): the leaves with their
\* paths, a sub-container being walked where it stands
RECURSIVE items(_, _)
items(c, prefix) ==
  IF c = <<>> THEN <<>>
  ELSE LET e == Head(c)
       IN (IF e.value.kind = "leaf"
           THEN <<[path |-> Append(prefix, e.key), value |-> e.value]>>
           ELSE items(e.value.sub, Append(prefix, e.key)))
          \o items(Tail(c), prefix)

\* every path of the container with what stands there
RECURSIVE paths(_, _)
paths(c, prefix) ==
  UNION {{[path |-> Append(prefix, c[i].key), kind |-> c[i].value.kind,
           val |-> c[i].value.val]}
         \cup paths(c[i].value.sub, Append(prefix, c[i].key)) : i \in 1..Len(c)}

\* the value at a path, or absent
RECURSIVE get(_, _)
get(c, path) ==
  LET i == index(c, Head(path))
  IN IF i = 0 THEN [kind |-> "absent", val |-> <<>>, sub |-> <<>>]
     ELSE IF Len(path) = 1 THEN c[i].value
     ELSE IF c[i].value.kind # "td" THEN [kind |-> "absent", val |-> <<>>, sub |-> <<>>]
     ELSE get(c[i].value.sub, Tail(path))

\* the loop that collects the conflicts: the leaves whose flat key was seen
RECURSIVE find_duplicates(_, _, _)
find_duplicates(all_leaves, sep, seen) ==
  IF all_leaves = <<>> THEN <<>>
  ELSE LET leaf_flat == join(sep, Head(all_leaves).path)
       IN IF leaf_flat \in seen
          THEN <<Head(all_leaves).path>> \o find_duplicates(Tail(all_leaves), sep, seen)
          ELSE find_duplicates(Tail(all_leaves), sep, seen \cup {leaf_flat})

KeysDone(self, result) == [exc |-> "none", conflicts |-> <<>>, self |-> self, result |-> result]
KeysRaise(self, conflicts) ==
  [exc |-> "KeyError", conflicts |-> conflicts, self |-> self, result |-> <<>>]

all_leaves_flat(all_leaves, sep) ==
  {join(sep, all_leaves[i].path) : i \in 1..Len(all_leaves)}

_flatten_keys_outplace(self, sep) ==
  LET all_leaves == items(self, <<>>)
  IN IF Cardinality(all_leaves_flat(all_leaves, sep)) < Len(all_leaves)
     THEN KeysRaise(self, find_duplicates(all_leaves, sep, {}))
     ELSE KeysDone(self, [i \in 1..Len(all_leaves) |->
                            entry(join(sep, all_leaves[i].path), all_leaves[i].value)])

\* writing a value at a nested key: absent sub-containers are created on
\* the way, a leaf on the way is an error
RECURSIVE _set_tuple(_, _, _)
_set_tuple(c, key, value) ==
  LET i == index(c, Head(key))
  IN IF Len(key) = 1
     THEN [exc |-> "none",
           c |-> IF i = 0 THEN Append(c, entry(key[1], value))
                 ELSE [c EXCEPT ![i].value = value]]
     ELSE IF i = 0
     THEN [exc |-> "none",
           c |-> Append(c, entry(Head(key), subtd(_set_tuple(<<>>, Tail(key), value).c)))]
     ELSE IF c[i].value.kind # "td" THEN [exc |-> "KeyError", c |-> c]
     ELSE LET r == _set_tuple(c[i].value.sub, Tail(key), value)
          IN [exc |-> r.exc,
              c |-> IF r.exc = "none" THEN [c EXCEPT ![i].value = subtd(r.c)] ELSE c]

RECURSIVE _del(_, _)
_del(c, key) ==
  LET i == index(c, Head(key))
  IN IF i = 0 THEN c
     ELSE IF Len(key) = 1 THEN SubSeq(c, 1, i - 1) \o SubSeq(c, i + 1, Len(c))
     ELSE [c EXCEPT ![i].value = subtd(_del(c[i].value.sub, Tail(key)))]

\* rename_key_(old_key, new_key, safe) with nested keys
rename_nested_key_(c, old_key, new_key, safe) ==
  IF safe /\ get(c, new_key).kind # "absent" THEN [exc |-> "KeyError", c |-> c]
  ELSE IF old_key = new_key THEN [exc |-> "none", c |-> c]
  ELSE LET r == _set_tuple(c, new_key, get(c, old_key))
       IN IF r.exc # "none" THEN r ELSE [exc |-> "none", c |-> _del(r.c, old_key)]

exclude(c, excluded) == SelectSeq(c, LAMBDA e : e.key \notin excluded)

\* for leaf, leaf_flat in zip(all_leaves, all_leaves_flat): rename_key_
RECURSIVE flatten_loop(_, _, _)
flatten_loop(c, all_leaves, sep) ==
  IF all_leaves = <<>> THEN c
  ELSE flatten_loop(rename_nested_key_(c, Head(all_leaves).path,
                                       <<join(sep, Head(all_leaves).path)>>, FALSE).c,
                    Tail(all_leaves), sep)

\* a leaf is a tuple here, never a str: no root key is discarded from
\* root_keys before exclude
_flatten_keys_inplace(self, sep) ==
  LET all_leaves == items(self, <<>>)
  IN IF Cardinality(all_leaves_flat(all_leaves, sep)) < Len(all_leaves)
     THEN KeysRaise(self, find_duplicates(all_leaves, sep, {}))
     ELSE LET out == exclude(flatten_loop(self, all_leaves, sep), root_keys(self))
          IN KeysDone(out, out)

flatten_keys(self, sep, inplace) ==
  IF inplace THEN _flatten_keys_inplace(self, sep) ELSE _flatten_keys_outplace(self, sep)

\* the loop with rename_key_(key, new_key), safe left at its default
RECURSIVE unflatten_loop_unsafe(_, _, _)
unflatten_loop_unsafe(c, key_list, sep) ==
  IF key_list = <<>> THEN [exc |-> "none", c |-> c]
  ELSE IF ~contains(Head(key_list), sep) THEN unflatten_loop_unsafe(c, Tail(key_list), sep)
  ELSE LET r == rename_nested_key_(c, <<Head(key_list)>>, split(Head(key_list), sep), FALSE)
       IN IF r.exc # "none" THEN [exc |-> "KeyError", c |-> r.c]
          ELSE unflatten_loop_unsafe(r.c, Tail(key_list), sep)

\* for key in list(self.keys()): rename_key_(key, new_key, safe=True)
RECURSIVE unflatten_loop(_, _, _)
unflatten_loop(c, key_list, sep) ==
  IF key_list = <<>> THEN [exc |-> "none", c |-> c]
  ELSE IF ~contains(Head(key_list), sep) THEN unflatten_loop(c, Tail(key_list), sep)
  ELSE LET r == rename_nested_key_(c, <<Head(key_list)>>, split(Head(key_list), sep), TRUE)
       IN IF r.exc # "none" THEN [exc |-> "KeyError", c |-> r.c]
          ELSE unflatten_loop(r.c, Tail(key_list), sep)

unflatten_keys(self, sep, inplace) ==
  LET r == unflatten_loop(self, [i \in 1..Len(self) |-> self[i].key], sep)
      after == IF inplace THEN r.c ELSE self
  IN IF r.exc # "none" THEN KeysRaise(after, <<>>) ELSE KeysDone(after, r.c)

(***************************************************************************)
(* Writes at a batch index.  A leaf is the sequence of its batch elements; *)
(* an index is the set of the elements it selects.                         *)
(***************************************************************************)
Elems == 1..BatchSize
Indices == (SUBSET Elems) \ {{}}
NoLeaf == <<>>
Leaf(value) == [i \in Elems |-> value]

\* _set_at_str: writes the value into the selected elements of a leaf the
\* container has
set_at_index(td, ntd, key, value, idx) ==
  IF td[key] = NoLeaf THEN TcRaise(td, ntd, "KeyError")
  ELSE TcDone([td EXCEPT ![key] = [i \in Elems |-> IF i \in idx THEN value ELSE @[i]]], ntd)

\* for key, value in input_dict_or_td.items(): self.set_at_(key, value, idx)
RECURSIVE update_at_items(_, _, _, _, _)
update_at_items(td, ntd, input, idx, order) ==
  IF order = <<>> THEN TcDone(td, ntd)
  ELSE IF ~has(input, Head(order)) THEN update_at_items(td, ntd, input, idx, Tail(order))
  ELSE LET r == set_at_index(td, ntd, Head(order), input[Head(order)], idx)
       IN IF r.exc # "none" THEN r
          ELSE update_at_items(r.td, ntd, input, idx, Tail(order))

\* update_ on leaves: copies onto the leaves the receiver has
update_leaves_(td, input) ==
  [k \in Keys |-> IF td[k] # NoLeaf /\ has(input, k) THEN Leaf(input[k]) ELSE td[k]]

\* update on leaves: every leaf of the input replaces or adds an entry
update_leaves(td, input) ==
  [k \in Keys |-> IF has(input, k) THEN Leaf(input[k]) ELSE td[k]]

\* TensorDictBase.update_at_; unit is `idx == ()`
update_at_(td, ntd, input, idx, unit) ==
  IF unit THEN TcDone(update_leaves_(td, input), ntd)
  ELSE update_at_items(td, ntd, input, idx, KeyOrder)

\* tensorclass set_at_
_set_at_index(td, ntd, key, value, idx) ==
  set_at_index(td, IF has(ntd, key) THEN [ntd EXCEPT ![key] = Absent] ELSE ntd,
               key, value, idx)

\* tensorclass update_at_: a dict is made a tensorclass first; the stores of
\* a tensorclass input go through update; a container input is handed to
\* self._tensordict.update_at_ with a keyword `index` that it does not have
_update_at_(td, ntd, input, kind, idx) ==
  IF kind \in {"dict", "tensorclass"}
  THEN TcDone(update_leaves(td, tensors(input)), ntd_update(ntd, input))
  ELSE TcRaise(td, ntd, "TypeError")

(***************************************************************************)
(* The state machine                                                       *)
(***************************************************************************)
NumThreads == {0, 1, 2}

Fits(h) == \A n \in Nodes : Len(h.parents[n]) <= MaxParents

SetHeap(h) ==
  /\ _is_locked' = h.locked
  /\ _is_memmap' = h.memmap
  /\ _is_shared' = h.shared
  /\ _lock_parents_weakrefs' = h.parents

Call(op, n, exc) == [op |-> op, node |-> n, exc |-> exc, new_locked |-> FALSE,
                     handle |-> "container", call |-> NoCall, pre |-> FALSE]

\* TensorDictParams.__init__: lock=True locks the hosted container
InitGraph ==
  /\ _lock_content \in BOOLEAN
  /\ LET h0 == [locked |-> [n \in Nodes |-> FALSE],
                memmap |-> [n \in Plain |-> FALSE],
                shared |-> [n \in Plain |-> FALSE],
                parents |-> [n \in Nodes |-> <<>>]]
         h == IF _lock_content THEN lock_(h0, "t") ELSE h0
     IN /\ _is_locked = h.locked
        /\ _is_memmap = h.memmap
        /\ _is_shared = h.shared
        /\ _lock_parents_weakrefs = h.parents
  /\ _last_op_queue = [n \in Nodes |-> <<>>]
  /\ regions = <<>>
  /\ entries = [k \in Keys |-> IF k = "x" THEN "v0" ELSE Absent]
  /\ _tensordict = [k \in Keys |-> IF k = "x" THEN "v0" ELSE Absent]
  /\ _non_tensordict = [k \in Keys |-> IF k = "y" THEN "s" ELSE Absent]
  /\ ret = Call("__init__", "p", "none")

NoShape == [op |-> "none", lazy |-> TRUE, c |-> <<>>, kw |-> NoKw, exc |-> "none",
            view |-> FALSE, out |-> [c |-> <<>>, exc |-> "none"],
            back |-> [c |-> <<>>, exc |-> "none"]]
NoAt == [op |-> "none", recv |-> "", key |-> "", input |-> [k \in Keys |-> Absent],
         kind |-> "", idx |-> {}, unit |-> FALSE, td |-> [k \in Keys |-> <<>>],
         ntd |-> [k \in Keys |-> Absent], exc |-> "none",
         td_after |-> [k \in Keys |-> <<>>], ntd_after |-> [k \in Keys |-> Absent]]
NoKeys == [op |-> "none", inplace |-> FALSE, origin |-> <<>>, c |-> <<>>, exc |-> "none",
           conflicts |-> <<>>, self |-> <<>>, result |-> <<>>]
NoSd == [op |-> "none"]
NoStack == [op |-> "none"]
Unshared == [kind |-> "unshared"]
Procs == {"main", "worker"}
Idle == [pc |-> "idle"]
Init == InitGraph /\ map_call = NoMap /\ shape_call = NoShape /\ keys_call = NoKeys
          /\ at_call = NoAt /\ sd_call = NoSd /\ stack_call = NoStack
          /\ shm = Unshared /\ workers = [p \in Procs |-> Idle]

\* the statement n.lock_()
Lock(n) ==
  LET h == lock_(Heap, n)
  IN /\ Fits(h)
     /\ SetHeap(h)
     /\ ret' = [Call("lock_", n, "none") EXCEPT !.pre = _is_locked[n]]
     /\ UNCHANGED <<_last_op_queue, _lock_content, regions, stores, rest>>

\* the statement n.unlock_()
Unlock(n) ==
  LET r == unlock_(Heap, _lock_content, n)
  IN /\ Fits(r.h)
     /\ SetHeap(r.h)
     /\ ret' = Call("unlock_", n, r.exc)
     /\ UNCHANGED <<_last_op_queue, _lock_content, regions, stores, rest>>

\* `with n.lock_():` up to the first statement of the body: lock_, then
\* __enter__ pushes the _last_op the decorator has just written
WithLock(n) ==
  LET h == lock_(Heap, n)
  IN /\ Len(regions) < MaxDepth
     /\ Len(_last_op_queue[n]) < MaxQueue
     /\ Fits(h)
     /\ SetHeap(h)
     /\ _last_op_queue' = [_last_op_queue EXCEPT
          ![n] = Append(@, as_decorator("lock_", _is_locked[n], h.locked[n]))]
     /\ regions' = Append(regions, [node |-> n, kind |-> "lock_", pre |-> _is_locked[n]])
     /\ ret' = Call("with lock_", n, "none")
     /\ UNCHANGED <<_lock_content, stores, rest>>

\* `with n.unlock_():` the region is entered only if unlock_ returns
WithUnlock(n) ==
  LET r == unlock_(Heap, _lock_content, n)
  IN /\ Len(regions) < MaxDepth
     /\ Len(_last_op_queue[n]) < MaxQueue
     /\ Fits(r.h)
     /\ SetHeap(r.h)
     /\ IF r.exc = "none"
        THEN /\ _last_op_queue' = [_last_op_queue EXCEPT
                  ![n] = Append(@, as_decorator("unlock_", _is_locked[n], r.h.locked[n]))]
             /\ regions' = Append(regions, [node |-> n, kind |-> "unlock_", pre |-> _is_locked[n]])
        ELSE UNCHANGED <<_last_op_queue, regions>>
     /\ ret' = Call("with unlock_", n, r.exc)
     /\ UNCHANGED <<_lock_content, stores, rest>>

\* TensorDictBase.__exit__ when the body ended normally: undo the popped op
Exit ==
  /\ regions # <<>>
  /\ LET n == regions[Len(regions)].node
         q == _last_op_queue[n]
         _last_op == q[Len(q)]
         r == CASE _last_op = "lock_" -> unlock_(Heap, _lock_content, n)
                [] _last_op = "unlock_" -> [h |-> lock_(Heap, n), exc |-> "none"]
                [] OTHER -> [h |-> Heap, exc |-> "none"]
     IN /\ Fits(r.h)
        /\ SetHeap(r.h)
        /\ _last_op_queue' = [_last_op_queue EXCEPT ![n] = SubSeq(q, 1, Len(q) - 1)]
        /\ ret' = Call("__exit__", n, r.exc)
  /\ regions' = SubSeq(regions, 1, Len(regions) - 1)
  /\ UNCHANGED <<_lock_content, stores, rest>>

\* TensorDictBase.__exit__ when the body raised: returns False at once
ExitRaising ==
  /\ regions # <<>>
  /\ regions' = SubSeq(regions, 1, Len(regions) - 1)
  /\ ret' = Call("__exit__", regions[Len(regions)].node, "body")
  /\ UNCHANGED <<_is_locked, _is_memmap, _is_shared, _lock_parents_weakrefs,
                 _last_op_queue, _lock_content, stores, rest>>

\* n.memmap_(num_threads=.., return_early=..)
MemmapInplace(n, num_threads, return_early) ==
  LET h == memmap_(Heap, n, num_threads)
  IN /\ ~_is_shared[n]
     /\ Fits(h)
     /\ SetHeap(h)
     /\ ret' = [Call("memmap_", n, "none") EXCEPT
                  !.handle = memmap_handle(num_threads, return_early)]
     /\ UNCHANGED <<_last_op_queue, _lock_content, regions, stores, rest>>

\* n.memmap(..) and n.memmap_like(..): a new container, n is left alone
MemmapCopy(op, n, num_threads, return_early) ==
  /\ ret' = [Call(op, n, "none") EXCEPT
               !.new_locked = memmap(num_threads),
               !.handle = memmap_handle(num_threads, return_early)]
  /\ UNCHANGED <<_is_locked, _is_memmap, _is_shared, _lock_parents_weakrefs,
                 _last_op_queue, _lock_content, regions, stores, rest>>

\* n.share_memory_()
ShareMemory(n) ==
  LET h == share_memory_(Heap, n)
  IN /\ ~_is_memmap[n]
     /\ Fits(h)
     /\ SetHeap(h)
     /\ ret' = Call("share_memory_", n, "none")
     /\ UNCHANGED <<_last_op_queue, _lock_content, regions, stores, rest>>

\* the lock protocol: lock_ and unlock_ called on any object of the graph
StoreCall(c, n, exc) == [Call(c.op, n, exc) EXCEPT !.call = c]

\* a method of the plain container "t"
TdCall(c) ==
  LET r == invoke(entries, _is_locked["t"], c)
  IN /\ entries' = r.e
     /\ ret' = StoreCall(c, "t", r.exc)
     /\ UNCHANGED <<_is_locked, _is_memmap, _is_shared, _lock_parents_weakrefs,
                    _last_op_queue, _lock_content, regions, _tensordict,
                    _non_tensordict, rest>>

\* a method of the wrapper "p".  The in-place family runs on the hosted
\* container's data; every other method refuses a locked wrapper and else
\* runs on the hosted container inside `with self._param_td.unlock_():`
ParamsCall(c) ==
  /\ Len(_last_op_queue["t"]) < MaxQueue
  /\ IF c.op \in _apply_on_data
     THEN LET r == invoke(entries, _is_locked["t"], c)
          IN /\ entries' = r.e
             /\ ret' = StoreCall(c, "p", r.exc)
             /\ UNCHANGED <<_is_locked, _is_memmap, _is_shared,
                            _lock_parents_weakrefs, _last_op_queue>>
     ELSE IF _is_locked["p"]
     THEN /\ ret' = StoreCall(c, "p", "RuntimeError")
          /\ UNCHANGED <<entries, _is_locked, _is_memmap, _is_shared,
                         _lock_parents_weakrefs, _last_op_queue>>
     ELSE LET u == unlock_(Heap, _lock_content, "t")
              last_op == as_decorator("unlock_", _is_locked["t"], u.h.locked["t"])
              r == invoke(entries, u.h.locked["t"], c)
          IN IF u.exc # "none"
             THEN /\ SetHeap(u.h)
                  /\ ret' = StoreCall(c, "p", u.exc)
                  /\ UNCHANGED <<entries, _last_op_queue>>
             ELSE IF r.exc # "none"
             THEN /\ SetHeap(u.h)
                  /\ entries' = r.e
                  /\ _last_op_queue' =
                       [_last_op_queue EXCEPT !["t"] = Append(@, last_op)]
                  /\ ret' = StoreCall(c, "p", r.exc)
             ELSE /\ SetHeap(IF last_op = "unlock_" THEN lock_(u.h, "t") ELSE u.h)
                  /\ entries' = r.e
                  /\ ret' = StoreCall(c, "p", "none")
                  /\ UNCHANGED _last_op_queue
  /\ UNCHANGED <<_lock_content, regions, _tensordict, _non_tensordict, rest>>

\* a method of the tensorclass instance whose _tensordict is "c"
TcCall(c) ==
  LET r == tc_invoke(_tensordict, _non_tensordict, _is_locked["c"], c)
  IN /\ _tensordict' = r.td
     /\ _non_tensordict' = r.ntd
     /\ ret' = StoreCall(c, "tc", r.exc)
     /\ UNCHANGED <<_is_locked, _is_memmap, _is_shared, _lock_parents_weakrefs,
                    _last_op_queue, _lock_content, regions, entries, rest>>

Next ==
  \/ \E n \in Nodes : Lock(n)
  \/ \E n \in Nodes : Unlock(n)

Spec == Init /\ [][Next]_vars

\* scoped guards: regions on a plain container and on the wrapper, with the
\* root that holds both locked and unlocked in between
GuardNodes == {"a", "p"}
GuardRoots == {"r1"}

NextGuard ==
  \/ \E n \in GuardRoots : Lock(n)
  \/ \E n \in GuardRoots : Unlock(n)
  \/ \E n \in GuardNodes : WithLock(n)
  \/ \E n \in GuardNodes : WithUnlock(n)
  \/ Exit
  \/ ExitRaising

SpecGuard == Init /\ [][NextGuard]_vars

\* memory mapping and shared memory on one chain of the graph
MemmapNodes == {"r1", "a", "c"}

NextMemmap ==
  \/ \E n \in MemmapNodes : Lock(n)
  \/ \E n \in MemmapNodes : Unlock(n)
  \/ \E n \in MemmapNodes, nt \in NumThreads, re \in BOOLEAN :
       MemmapInplace(n, nt, re)
  \/ \E n \in MemmapNodes, nt \in NumThreads, re \in BOOLEAN :
       \E op \in {"memmap", "memmap_like"} : MemmapCopy(op, n, nt, re)
  \/ \E n \in MemmapNodes : ShareMemory(n)

SpecMemmap == Init /\ [][NextMemmap]_vars

\* the entry store of the plain container t and of the wrapper p around it
StoreNodes == {"t", "p"}

NextStore ==
  \/ \E n \in StoreNodes : Lock(n)
  \/ \E n \in StoreNodes : Unlock(n)
  \/ \E c \in StoreCalls : TdCall(c)
  \/ \E c \in StoreCalls : ParamsCall(c)

SpecStore == Init /\ [][NextStore]_vars

\* the two stores of the tensorclass instance on c, which a also holds
TcNodes == {"c", "a"}

NextTensorclass ==
  \/ \E n \in TcNodes : Lock(n)
  \/ \E n \in TcNodes : Unlock(n)
  \/ \E c \in TcCalls : TcCall(c)

SpecTensorclass == Init /\ [][NextTensorclass]_vars

(***************************************************************************)
(* Properties of the lock protocol                                         *)
(***************************************************************************)
\* C1: when an ancestor c of d is locked, the direct call d.unlock_() raises
\* RuntimeError and d is locked afterwards -- for every descendant d,
\* the container hosted by a TensorDictParams wrapper included.
C1_DirectUnlockRejected ==
  [][\A d \in Nodes :
       (Unlock(d) /\ \E c \in Ancestors(d) : _is_locked[c])
         => (ret'.exc = "RuntimeError" /\ _is_locked'[d])]_vars

\* C2: an unlock_() that raises RuntimeError leaves, on every node of the
\* subtree, is_locked, the shared and memory-mapped flags and the recorded
\* lock parents as they were before the call.
C2_FailedUnlockChangesNothing ==
  [][\A n \in Nodes :
       (Unlock(n) /\ ret'.exc = "RuntimeError")
         => \A m \in Subtree(n) :
              /\ _is_locked'[m] = _is_locked[m]
              /\ _lock_parents_weakrefs'[m] = _lock_parents_weakrefs[m]
              /\ m \in Plain => /\ _is_memmap'[m] = _is_memmap[m]
                                /\ _is_shared'[m] = _is_shared[m]]_vars

\* C7: right after c.lock_() returns, every container reachable from c is
\* locked.
C7_LockReachesEveryDescendant ==
  ret.op = "lock_" => \A d \in Subtree(ret.node) : _is_locked[d]

\* C8: after a successful c.unlock_(), every container of c's subtree is
\* unlocked and has no recorded lock parent.
C8_UnlockClearsSubtree ==
  (ret.op = "unlock_" /\ ret.exc = "none")
    => \A m \in Subtree(ret.node) :
         ~_is_locked[m] /\ _lock_parents_weakrefs[m] = <<>>

\* C9: unlock_() never leaves a half-unlocked subtree: when the call is
\* over, every node of the subtree is unlocked or every node that was locked
\* before is still locked.
C9_NoHalfUnlockedSubtree ==
  [][\A n \in Nodes :
       Unlock(n)
         => \/ \A m \in Subtree(n) : ~_is_locked'[m]
            \/ \A m \in Subtree(n) : _is_locked[m] => _is_locked'[m]]_vars

\* C11: lock_() on a container that is locked already is a no-op: no
\* is_locked flag and no recorded parent list changes, on the container and
\* on all its descendants.
C11_RelockIsNoOp ==
  [][\A n \in Nodes : (Lock(n) /\ _is_locked[n])
        => \A m \in Subtree(n) :
             /\ _is_locked'[m] = _is_locked[m]
             /\ _lock_parents_weakrefs'[m] = _lock_parents_weakrefs[m]]_vars

\* lock_() has just returned on a container that was locked through a
\* parent and has descendants
C11_Relocked ==
  /\ ret.op = "lock_" /\ ret.pre /\ ret.node = "a"
  /\ _lock_parents_weakrefs["a"] # <<>>

(***************************************************************************)
(* Properties of the scoped guards                                         *)
(***************************************************************************)
\* C6: `with c.lock_():` locks c, and the exit that ends the region (without
\* raising) unlocks c if and only if c was not locked on entry, however the
\* regions on c are nested; `with c.unlock_():` re-locks c on exit only if c
\* was locked on entry.
C6_GuardRestoresEntryState ==
  [][/\ \A c \in GuardNodes : WithLock(c) => _is_locked'[c]
     /\ (Exit /\ ret'.exc = "none") =>
          LET g == regions[Len(regions)]
              c == g.node
          IN /\ (g.kind = "lock_" /\ _is_locked[c]) => (~_is_locked'[c] <=> ~g.pre)
             /\ (g.kind = "unlock_" /\ ~_is_locked[c]) => (_is_locked'[c] => g.pre)]_vars

Guarded(e, c) ==
  \/ c.op \in {"del_", "rename_key_", "pop"} /\ has(e, c.key)
  \/ c.op \in {"create_nested", "clear"}
  \/ c.op = "popitem" /\ keys(e) # {}
  \/ c.op = "set" /\ ~has(e, c.key)
  \/ c.op = "update" /\ keys(c.input) \ keys(e) # {}

\* the same for a tensorclass: the field is in one of the two stores, or the
\* value would enter a store that lacks the field
TcGuarded(td, ntd, c) ==
  \/ c.op = "del_" /\ (has(td, c.key) \/ has(ntd, c.key))
  \/ c.op = "set" /\ c.value \in Vals /\ ~has(td, c.key)
  \/ c.op = "set" /\ c.value \in NonTensor /\ ~has(ntd, c.key)
  \/ c.op = "update" /\ \E k \in Keys :
        \/ c.input[k] \in Vals /\ ~has(td, k)
        \/ c.input[k] \in NonTensor /\ ~has(ntd, k)

\* an in-place overwrite of tensors the store already has
InPlace(e, c) ==
  \/ c.op = "set" /\ c.flag /\ e[c.key] \in Vals
  \/ c.op = "set_" /\ e[c.key] \in Vals
  \/ c.op = "update" /\ c.flag /\ \A k \in keys(c.input) : e[k] \in Vals
  \/ c.op = "update_" /\ \A k \in keys(c.input) : e[k] \in Vals

\* the same for a tensorclass: every value written is a tensor
TcInPlace(td, c) ==
  /\ c.value \notin NonTensor
  /\ \A k \in Keys : c.input[k] \notin NonTensor
  /\ InPlace(td, c)

\* what an in-place overwrite is to leave in the store
Written(e, c) ==
  IF c.op \in {"set", "set_"} THEN [e EXCEPT ![c.key] = c.value]
  ELSE [k \in Keys |-> IF has(c.input, k) THEN c.input[k] ELSE e[k]]

\* C3: no call on a locked container changes its key set, be it the plain
\* container, the wrapper or a tensorclass (whose tensor store and
\* non-tensor store both keep their fields).
C3_KeySetFixedWhileLocked ==
  [][LET c == ret'.call
     IN /\ (ret'.node = "t" /\ c \in StoreCalls /\ TdCall(c) /\ _is_locked["t"])
             => keys(entries') = keys(entries)
        /\ (ret'.node = "p" /\ c \in StoreCalls /\ ParamsCall(c) /\ _is_locked["p"])
             => keys(entries') = keys(entries)
        /\ (ret'.node = "tc" /\ c \in TcCalls /\ TcCall(c) /\ _is_locked["c"])
             => /\ keys(_tensordict') = keys(_tensordict)
                /\ keys(_non_tensordict') = keys(_non_tensordict)]_vars

\* C4: on a locked container every guarded call raises RuntimeError: on the
\* plain container, on the wrapper and on a tensorclass, for tensor fields
\* and non-tensor fields.
C4_GuardedCallRaisesWhenLocked ==
  [][LET c == ret'.call
     IN /\ (ret'.node = "t" /\ c \in StoreCalls /\ TdCall(c) /\ _is_locked["t"]
               /\ Guarded(entries, c))
             => ret'.exc = "RuntimeError"
        /\ (ret'.node = "p" /\ c \in StoreCalls /\ ParamsCall(c) /\ _is_locked["p"]
               /\ Guarded(entries, c))
             => ret'.exc = "RuntimeError"
        /\ (ret'.node = "tc" /\ c \in TcCalls /\ TcCall(c) /\ _is_locked["c"]
               /\ TcGuarded(_tensordict, _non_tensordict, c))
             => ret'.exc = "RuntimeError"]_vars

\* C5: on a locked container an in-place overwrite of existing tensors
\* raises nothing and changes the written values only: on the plain
\* container, on the wrapper and on a tensorclass.
C5_InPlaceWriteAllowedWhenLocked ==
  [][LET c == ret'.call
     IN /\ (ret'.node = "t" /\ c \in StoreCalls /\ TdCall(c) /\ _is_locked["t"]
               /\ InPlace(entries, c))
             => (ret'.exc = "none" /\ entries' = Written(entries, c))
        /\ (ret'.node = "p" /\ c \in StoreCalls /\ ParamsCall(c) /\ _is_locked["p"]
               /\ InPlace(entries, c))
             => (ret'.exc = "none" /\ entries' = Written(entries, c))
        /\ (ret'.node = "tc" /\ c \in TcCalls /\ TcCall(c) /\ _is_locked["c"]
               /\ TcInPlace(_tensordict, c))
             => /\ ret'.exc = "none"
                /\ _tensordict' = Written(_tensordict, c)
                /\ _non_tensordict' = _non_tensordict]_vars

(***************************************************************************)
(* map                                                                     *)
(***************************************************************************)
lock_frame == <<_is_locked, _is_memmap, _is_shared, _lock_parents_weakrefs,
                _last_op_queue, _lock_content, regions, stores, others>>

\* self.map(fn, dim, out=out): out is "none", "local" (written by the
\* caller's loop) or "shared" (shared or memory-mapped: every worker writes
\* its own chunk of out).  fn_none tells for which chunks fn returns None;
\* with a shared out fn must return a container for update_.
MapCall(out, fn_none) ==
  /\ map_call.pc # "running"
  /\ out = "shared" => \A i \in Chunks : ~fn_none[i]
  /\ map_call' = [NoMap EXCEPT !.pc = "running", !.out = out, !.fn_none = fn_none]
  /\ ret' = Call("map", "self", "none")
  /\ UNCHANGED lock_frame

\* a worker finishes chunk i, at any time and in any order; newfn writes
\* the result into the chunk of out zipped with chunk i
WorkerDone(i) ==
  /\ map_call.pc = "running"
  /\ i \notin map_call.done
  /\ map_call' = [map_call EXCEPT !.done = @ \cup {i},
                                  !.placed[i] = IF map_call.out = "shared" THEN i ELSE @]
  /\ UNCHANGED <<lock_frame, ret>>

\* one turn of `for item in imap:`: imap yields the result of the next
\* chunk once its worker is done; None is skipped, start is not moved
MapItem ==
  /\ map_call.pc = "running"
  /\ map_call.next \in map_call.done
  /\ LET i == map_call.next
         none == map_call.fn_none[i] \/ map_call.out = "shared"
     IN map_call' =
          IF none THEN [map_call EXCEPT !.next = i + 1]
          ELSE IF map_call.out = "local"
          THEN [map_call EXCEPT !.next = i + 1, !.placed[map_call.start] = i,
                                !.start = @ + 1]
          ELSE [map_call EXCEPT !.next = i + 1, !.imaplist = Append(@, i)]
  /\ UNCHANGED <<lock_frame, ret>>

\* the loop is over: the collected results are concatenated and returned
MapReturn ==
  /\ map_call.pc = "running"
  /\ map_call.next = NumChunks + 1
  /\ map_call' = [map_call EXCEPT !.pc = "returned",
                     !.placed = IF map_call.imaplist # <<>>
                                THEN cat(map_call.imaplist) ELSE @]
  /\ ret' = Call("map", "self", "none")
  /\ UNCHANGED lock_frame

NextMap ==
  \/ \E out \in {"none", "local", "shared"}, fn_none \in [Chunks -> BOOLEAN] :
        MapCall(out, fn_none)
  \/ \E i \in Chunks : WorkerDone(i)
  \/ MapItem
  \/ MapReturn

SpecMap == Init /\ [][NextMap]_vars

\* C12: when map returns, every result that is not None sits, in the
\* returned container or in out, at the position of the chunk it was
\* computed from, whatever the order in which the workers finished.
C12_ResultsAtChunkPosition ==
  map_call.pc = "returned"
    => \A i \in Chunks : /\ ~map_call.fn_none[i] => map_call.placed[i] = i
                         /\ map_call.placed[i] \in {0, i}

\* C13: memmap_, memmap and memmap_like return a future-like handle when
\* return_early is set and num_threads > 0; without return_early they
\* return the container, and no leaf write is still running then.
C13_ReturnEarlyGivesFuture ==
  [][\A n \in MemmapNodes, num_threads \in NumThreads, return_early \in BOOLEAN :
       (\/ MemmapInplace(n, num_threads, return_early)
        \/ \E op \in {"memmap", "memmap_like"} :
              MemmapCopy(op, n, num_threads, return_early))
       => /\ (return_early /\ num_threads > 0) => ret'.handle = "future"
          /\ ~return_early => /\ ret'.handle = "container"
                              /\ ~memmap_pending(num_threads, return_early)]_vars

(***************************************************************************)
(* Shape operations as calls                                               *)
(***************************************************************************)
PermuteArgs == UNION {[1..n -> (0 - 1)..MaxDims] : n \in 0..MaxDims}

NoRead == [c |-> <<>>, exc |-> "none"]

\* what is read through the view node that a legacy operation returned, and
\* what the declared inverse operation gives when applied to that
read(c, r) ==
  IF r.view THEN apply_op(c, r.custom_op, r.custom_op_kwargs) ELSE NoRead
inverse(c, r) ==
  IF r.view /\ read(c, r).exc = "none"
  THEN apply_op(read(c, r).c, r.inv_op, r.inv_op_kwargs) ELSE NoRead

ShapeCall(op, lazy, c, kw, r) ==
  [op |-> op, lazy |-> lazy, c |-> c, kw |-> kw, exc |-> r.exc, view |-> r.view,
   out |-> read(c, r), back |-> inverse(c, r)]

shape_frame == <<_is_locked, _is_memmap, _is_shared, _lock_parents_weakrefs,
                 _last_op_queue, _lock_content, regions, stores, map_call,
                 keys_call, at_call, late, ret>>

\* The operations are pure functions of the container and the arguments:
\* a behaviour follows one call on a container fresh from construction.
\* with lazy_legacy() on, unsqueeze, squeeze, view and permute go to their
\* legacy form
Unsqueeze(shape, dim) ==
  /\ shape_call.op = "none"
  /\ shape_call' = ShapeCall("unsqueeze", TRUE, Container(shape), [NoKw EXCEPT !.dim = dim],
                             _legacy_unsqueeze(Container(shape), dim))
  /\ UNCHANGED shape_frame

Squeeze(shape, dim) ==
  /\ shape_call.op = "none"
  /\ shape_call' = ShapeCall("squeeze", TRUE, Container(shape), [NoKw EXCEPT !.dim = dim],
                             _legacy_squeeze(Container(shape), dim))
  /\ UNCHANGED shape_frame

ViewShape(shape, size) ==
  /\ shape_call.op = "none"
  /\ shape_call' = ShapeCall("view", TRUE, Container(shape), [NoKw EXCEPT !.size = size],
                             _legacy_view(Container(shape), size))
  /\ UNCHANGED shape_frame

Transpose(shape, dim0, dim1, lazy) ==
  /\ shape_call.op = "none"
  /\ shape_call' = ShapeCall("transpose", lazy, Container(shape),
                             [NoKw EXCEPT !.dim0 = dim0, !.dim1 = dim1],
                             transpose(Container(shape), dim0, dim1, lazy))
  /\ UNCHANGED shape_frame

Permute(shape, dims_list) ==
  /\ shape_call.op = "none"
  /\ shape_call' = ShapeCall("permute", TRUE, Container(shape), [NoKw EXCEPT !.dims = dims_list],
                             _legacy_permute(Container(shape), dims_list))
  /\ UNCHANGED shape_frame

NextShape ==
  \/ \E shape \in Shapes, dim \in Dims : Unsqueeze(shape, dim)
  \/ \E shape \in Shapes, dim \in Dims : Squeeze(shape, dim)
  \/ \E shape \in Shapes, size \in Shapes : ViewShape(shape, size)
  \/ \E shape \in Shapes, dim0 \in Dims, dim1 \in Dims, lazy \in BOOLEAN :
        Transpose(shape, dim0, dim1, lazy)
  \/ \E shape \in Shapes, dims_list \in PermuteArgs : Permute(shape, dims_list)

SpecShape == Init /\ [][NextShape]_vars

\* C14: for every lazy shape operation (unsqueeze, squeeze, view, transpose,
\* permute) and every valid argument, applying the declared inverse
\* operation with the declared inverse arguments to what the view shows
\* gives the batch shape and the leaf values of the source again.
C14_InverseRoundTrip ==
  (shape_call.op # "none" /\ shape_call.lazy /\ shape_call.view
     /\ shape_call.out.exc = "none")
    => /\ shape_call.back.exc = "none"
       /\ shape_call.back.c = shape_call.c

\* the requests that cannot be met: a dimension out of range for transpose
\* or permute, squeeze of a dimension whose size is not 1
Incompatible ==
  LET n == Len(shape_call.c)
      kw == shape_call.kw
      OutOfRange(d) == d < 0 - n \/ d > n - 1
  IN \/ shape_call.op = "transpose" /\ (OutOfRange(kw.dim0) \/ OutOfRange(kw.dim1))
     \/ shape_call.op = "permute" /\ \E i \in 1..Len(kw.dims) : OutOfRange(kw.dims[i])
     \/ shape_call.op = "squeeze" /\ ~OutOfRange(kw.dim)
          /\ shape_call.c[wrap(kw.dim, n) + 1].size # 1

\* C15: a shape operation, eager or lazy, that is asked something
\* incompatible with the batch shape raises RuntimeError or IndexError, and
\* returns neither a result nor a view.
C15_IncompatibleRequestRaises ==
  Incompatible => /\ shape_call.exc \in {"RuntimeError", "IndexError"}
                  /\ ~shape_call.view

(***************************************************************************)
(* flatten_keys and unflatten_keys as calls                                *)
(***************************************************************************)
keys_frame == <<_is_locked, _is_memmap, _is_shared, _lock_parents_weakrefs,
                _last_op_queue, _lock_content, regions, stores, map_call,
                shape_call, at_call, late, ret>>

KeysCall(op, inplace, origin, c, r) ==
  [op |-> op, inplace |-> inplace, origin |-> origin, c |-> c, exc |-> r.exc,
   conflicts |-> r.conflicts, self |-> r.self, result |-> r.result]

\* c.flatten_keys(separator, inplace) on a container fresh from construction
FlattenKeys(c, inplace) ==
  /\ keys_call.op = "none"
  /\ keys_call' = KeysCall("flatten_keys", inplace, c, c, flatten_keys(c, separator, inplace))
  /\ UNCHANGED keys_frame

\* c.unflatten_keys(separator, inplace) on a container fresh from construction
UnflattenKeys(c, inplace) ==
  /\ keys_call.op = "none"
  /\ keys_call' = KeysCall("unflatten_keys", inplace, c, c, unflatten_keys(c, separator, inplace))
  /\ UNCHANGED keys_frame

\* c.flatten_keys(separator).unflatten_keys(separator): the second call, on
\* what the first returned
UnflattenFlattened ==
  /\ keys_call.op = "flatten_keys" /\ ~keys_call.inplace /\ keys_call.exc = "none"
  /\ keys_call' = KeysCall("flatten_keys.unflatten_keys", FALSE, keys_call.origin,
                           keys_call.result,
                           unflatten_keys(keys_call.result, separator, FALSE))
  /\ UNCHANGED keys_frame

NextKeys ==
  \/ \E c \in KeyContainers, inplace \in BOOLEAN : FlattenKeys(c, inplace)
  \/ \E c \in KeyContainers, inplace \in BOOLEAN : UnflattenKeys(c, inplace)
  \/ UnflattenFlattened

SpecKeys == Init /\ [][NextKeys]_vars

\* no key of the container, at any level, contains the separator
NoSeparator(c) ==
  \A p \in paths(c, <<>>) : \A i \in 1..Len(p.path) : ~contains(p.path[i], separator)

\* C16: for a container none of whose keys contains the separator,
\* flatten_keys followed by unflatten_keys gives back the same nested key
\* structure, sub-containers included, and the same leaf values.
C16_FlattenUnflattenRoundTrip ==
  (keys_call.op = "flatten_keys.unflatten_keys" /\ NoSeparator(keys_call.origin))
    => /\ keys_call.exc = "none"
       /\ paths(keys_call.result, <<>>) = paths(keys_call.origin, <<>>)

\* the paths of leaves whose flat key is also the flat key of another leaf
Colliding(c) ==
  LET all_leaves == items(c, <<>>)
  IN {all_leaves[i].path : i \in {i \in 1..Len(all_leaves) :
        \E j \in 1..Len(all_leaves) :
           j # i /\ join(separator, all_leaves[j].path) = join(separator, all_leaves[i].path)}}

\* C17: flatten_keys on a container in which two distinct paths join to the
\* same flat key raises a collision error that names exactly the paths that
\* collide and leaves every entry as it was, in place or not.
C17_CollisionRaisesAndNames ==
  (keys_call.op = "flatten_keys" /\ Colliding(keys_call.c) # {})
    => /\ keys_call.exc = "KeyError"
       /\ SeqToSet(keys_call.conflicts) = Colliding(keys_call.c)
       /\ keys_call.self = keys_call.c

prefix_of(p, q) == Len(p) <= Len(q) /\ SubSeq(q, 1, Len(p)) = p

\* unflattening some key of c would overwrite: the nested key it splits
\* into is taken, or runs through a leaf, or is on the way to the nested
\* key of another flat key, as a leaf or after that key was moved
WouldOverwrite(c) ==
  \E i \in 1..Len(c) :
    /\ contains(c[i].key, separator)
    /\ LET new_key == split(c[i].key, separator)
       IN \/ get(c, new_key).kind # "absent"
          \/ \E n \in 1..(Len(new_key) - 1) : get(c, SubSeq(new_key, 1, n)).kind = "leaf"
          \/ \E j \in 1..Len(c) :
                /\ j # i /\ contains(c[j].key, separator)
                /\ prefix_of(new_key, split(c[j].key, separator))
                /\ (c[i].value.kind = "leaf" \/ j < i)

\* the entries that are not flat keys, at every level
Existing(c) == {p \in paths(c, <<>>) : ~contains(p.path[1], separator)}

C20_UpdateInplaceRejectsUnknownKey ==
  [][LET c == ret'.call
     IN (ret'.node = "t" /\ c \in StoreCalls /\ c.op = "update_" /\ TdCall(c)
           /\ \E k \in Keys : has(c.input, k) /\ ~has(entries, k))
          => ret'.exc # "none"]_vars

(***************************************************************************)
(* set_at_ and update_at_ as calls                                         *)
(***************************************************************************)
at_frame == <<_is_locked, _is_memmap, _is_shared, _lock_parents_weakrefs,
              _last_op_queue, _lock_content, regions, stores, map_call,
              shape_call, keys_call, late, ret>>

\* the receivers: a plain container with leaf x and maybe leaf y, and a
\* tensorclass with tensor field x and a field y that is a tensor or not
PlainStores == {[x |-> Leaf("v0"), y |-> l] : l \in {Leaf("v0"), NoLeaf}}
NoNonTensor == [k \in Keys |-> Absent]

AtCall(op, recv, key, input, kind, idx, unit, td, ntd, r) ==
  [op |-> op, recv |-> recv, key |-> key, input |-> input, kind |-> kind,
   idx |-> idx, unit |-> unit, td |-> td, ntd |-> ntd, exc |-> r.exc,
   td_after |-> r.td, ntd_after |-> r.ntd]

SetAt(td, key, idx) ==
  /\ at_call.op = "none"
  /\ at_call' = AtCall("set_at_", "td", key, NoInput, "", idx, FALSE, td, NoNonTensor,
                       set_at_index(td, NoNonTensor, key, "v1", idx))
  /\ UNCHANGED at_frame

UpdateAt(td, input, kind, idx, unit) ==
  /\ at_call.op = "none"
  /\ at_call' = AtCall("update_at_", "td", "", input, kind, idx, unit, td, NoNonTensor,
                       update_at_(td, NoNonTensor, input, idx, unit))
  /\ UNCHANGED at_frame

TcSetAt(td, key, idx) ==
  LET ntd == [k \in Keys |-> IF td[k] = NoLeaf THEN "s" ELSE Absent]
  IN /\ at_call.op = "none"
     /\ at_call' = AtCall("set_at_", "tc", key, NoInput, "", idx, FALSE, td, ntd,
                          _set_at_index(td, ntd, key, "v1", idx))
     /\ UNCHANGED at_frame

TcUpdateAt(td, input, kind, idx) ==
  LET ntd == [k \in Keys |-> IF td[k] = NoLeaf THEN "s" ELSE Absent]
  IN /\ at_call.op = "none"
     /\ at_call' = AtCall("update_at_", "tc", "", input, kind, idx, FALSE, td, ntd,
                          _update_at_(td, ntd, input, kind, idx))
     /\ UNCHANGED at_frame

NextAt ==
  \/ \E td \in PlainStores, key \in Keys, idx \in Indices : SetAt(td, key, idx)
  \/ \E td \in PlainStores, input \in Inputs, kind \in {"dict", "td", "tensorclass"},
        idx \in Indices, unit \in BOOLEAN :
        /\ unit => idx = Elems
        /\ UpdateAt(td, input, kind, idx, unit)
  \/ \E td \in PlainStores, key \in Keys, idx \in Indices : TcSetAt(td, key, idx)
  \/ \E td \in PlainStores, input \in TcInputs, kind \in {"dict", "td", "tensorclass"},
        idx \in Indices : TcUpdateAt(td, input, kind, idx)

SpecAt == Init /\ [][NextAt]_vars

\* the entries that the call names
Named(k) ==
  IF at_call.op = "set_at_" THEN k = at_call.key ELSE has(at_call.input, k)

\* C19: set_at_ and update_at_ write only into the batch elements that idx
\* selects: every element outside idx and every entry that the input does
\* not name is as before, on a plain container and on a tensorclass,
\* whatever the type of the input.
C19_WritesOnlyAtIndex ==
  at_call.op # "none"
    => \A k \in Keys :
         /\ ~Named(k) => /\ at_call.td_after[k] = at_call.td[k]
                         /\ at_call.ntd_after[k] = at_call.ntd[k]
         /\ at_call.td[k] # NoLeaf
              => /\ at_call.td_after[k] # NoLeaf
                 /\ \A i \in Elems \ at_call.idx :
                      at_call.td_after[k][i] = at_call.td[k][i]

\* C27: flatten_keys in place leaves the receiver with the mapping that
\* flatten_keys out of place returns for the same container: root leaves
\* under their own key, nested leaves under the joined key.
C27_InplaceMatchesOutplace ==
  (keys_call.op = "flatten_keys" /\ keys_call.inplace /\ keys_call.exc = "none")
    => paths(keys_call.self, <<>>)
         = paths(_flatten_keys_outplace(keys_call.c, separator).result, <<>>)

\* C29: when unflatten_keys in place raises because a key would override
\* an existing one, the receiver holds the keys and values it had before
\* the call: no other key has been moved to its nested position.
C29_FailedUnflattenLeavesSelf ==
  (keys_call.op = "unflatten_keys" /\ keys_call.inplace /\ keys_call.exc = "KeyError")
    => keys_call.self = keys_call.c

\* C24: a container with a recorded lock parent that is locked is itself
\* locked, whatever lock_ and unlock_ calls were made on plain containers
\* and on wrappers that share it.
C24_LockedParentMeansLocked ==
  \A d \in Nodes : \A i \in 1..Len(_lock_parents_weakrefs[d]) :
     _is_locked[_lock_parents_weakrefs[d][i]] => _is_locked[d]

\* a list of lock parents without its repetitions: _check_unlock only asks
\* whether some recorded parent is locked
RECURSIVE Dedup(_)
Dedup(s) ==
  IF s = <<>> THEN <<>>
  ELSE LET t == Dedup(SubSeq(s, 1, Len(s) - 1))
       IN IF s[Len(s)] \in SeqToSet(t) THEN t ELSE Append(t, s[Len(s)])

Norm(h) == [h EXCEPT !.parents = [n \in Nodes |-> Dedup(h.parents[n])]]

\* every heap that some sequence of unlock_() calls leads to
RECURSIVE UnlockClosure(_)
UnlockClosure(S) ==
  LET T == S \cup {Norm(unlock_(h, _lock_content, n).h) : h \in S, n \in Nodes}
  IN IF T = S THEN S ELSE UnlockClosure(T)

\* C25: the lock protocol cannot wedge: from every reachable state some
\* sequence of unlock_() calls on the existing containers ends with every
\* container unlocked.
C25_UnlockNeverWedges ==
  \E h \in UnlockClosure({Norm(Heap)}) : \A n \in Nodes : ~h.locked[n]

\* C26: when the body of a guarded region raises, the lock state of the
\* container after the region is left is its state before the region was
\* entered, and the pending-operation queue has lost the entry that
\* __enter__ pushed.
C26_RaisingBodyRestoresState ==
  [][(regions # <<>> /\ ret'.op = "__exit__" /\ ret'.exc = "body"
        /\ regions' = SubSeq(regions, 1, Len(regions) - 1))
       => LET region == regions[Len(regions)]
          IN /\ _is_locked'[region.node] = region.pre
             /\ Len(_last_op_queue'[region.node])
                  = Len(_last_op_queue[region.node]) - 1]_vars

\* C28: in a tensorclass instance no field name is in the tensor store and
\* in the non-tensor store at the same time, after any sequence of set,
\* update, update_, set_at_ and del_.
C28_StoresDisjoint ==
  \A k \in Keys : ~(has(_tensordict, k) /\ has(_non_tensordict, k))

(***************************************************************************)
(* state_dict and load_state_dict                                          *)
(***************************************************************************)
\* the values of a container and of a state dict: a tensor, a container
\* with its batch size and device, a nested mapping, a batch size or device
tensor(val) ==
  [kind |-> "leaf", val |-> val, sub |-> <<>>, batch_size |-> "", device |-> ""]
TensorDict(source, bs, dev) ==
  [kind |-> "td", val |-> "", sub |-> source, batch_size |-> bs, device |-> dev]
OrderedDict(mapping) ==
  [kind |-> "dict", val |-> "", sub |-> mapping, batch_size |-> "", device |-> ""]
meta(val) ==
  [kind |-> "meta", val |-> val, sub |-> <<>>, batch_size |-> "", device |-> ""]

__batch_size == <<"__batch_size">>
__device == <<"__device">>

\* out[key] = value on an ordered mapping
put(out, key, value) ==
  IF index(out, key) # 0 THEN [out EXCEPT ![index(out, key)].value = value]
  ELSE Append(out, entry(key, value))

\* destination.update(out)
RECURSIVE dict_update(_, _)
dict_update(destination, out) ==
  IF out = <<>> THEN destination
  ELSE dict_update(put(destination, Head(out).key, Head(out).value), Tail(out))

NoDestination == [given |-> FALSE, out |-> <<>>]
SdDone(out) == [exc |-> "none", out |-> out]
SdRaise(exc) == [exc |-> exc, out |-> <<>>]

RECURSIVE state_dict(_, _, _, _)
RECURSIVE state_dict_loop(_, _, _)
\* the loop over source.items(): a leaf is stored under prefix + key, a
\* sub-container as its own state dict, taken without prefix
state_dict_loop(out, source_items, prefix) ==
  IF source_items = <<>> THEN SdDone(out)
  ELSE LET key == Head(source_items).key
           item == Head(source_items).value
           nested == state_dict(item, NoDestination, <<>>, FALSE)
       IN IF item.kind = "leaf"
          THEN state_dict_loop(put(out, prefix \o key, item), Tail(source_items), prefix)
          ELSE IF nested.exc # "none" THEN nested
          ELSE state_dict_loop(put(out, prefix \o key, OrderedDict(nested.out)),
                               Tail(source_items), prefix)

state_dict(self, destination, prefix, flatten) ==
  LET flat == _flatten_keys_outplace(self.sub, separator)
      source == IF flatten THEN [self EXCEPT !.sub = flat.result] ELSE self
      filled == state_dict_loop(<<>>, source.sub, prefix)
      out == put(put(filled.out, prefix \o __batch_size, meta(source.batch_size)),
                 prefix \o __device, meta(source.device))
  IN IF flatten /\ flat.exc # "none" THEN SdRaise(flat.exc)
     ELSE IF filled.exc # "none" THEN filled
     ELSE IF index(filled.out, __batch_size) # 0 THEN SdRaise("KeyError")
     ELSE IF index(filled.out, __device) # 0 THEN SdRaise("KeyError")
     ELSE IF destination.given THEN SdDone(dict_update(destination.out, out))
     ELSE SdDone(out)

\* the containers whose state dict is taken: keys a, __batch_size and
\* __device, each a tensor or a sub-container that is empty or holds one
\* tensor
SdNames == {<<"a">>, __batch_size, __device}
SdSubs == {<<>>} \cup {<<entry(k, tensor("t0"))>> : k \in {<<"b">>, __batch_size}}
SdSizes == {"[]", "[2]"}
SdDevices == {"None", "cpu"}
SdEntries(names, subs, val, bs, dev) ==
  UNION {{c \in [1..Len(ks) ->
                   UNION {{entry(k, v) : v \in {tensor(val)}
                             \cup {TensorDict(sub, bs, dev) : sub \in subs}} : k \in names}] :
            \A i \in 1..Len(ks) : c[i].key = ks[i]} : ks \in Orders(names)}
SdSources ==
  UNION {{TensorDict(c, bs, dev) : c \in SdEntries(SdNames, SdSubs, "t0", bs, dev)} :
           bs \in SdSizes, dev \in SdDevices}
Prefixes == {<<>>, <<"p", ".">>}
Destinations == {NoDestination, [given |-> TRUE, out |-> <<entry(<<"z">>, tensor("t9"))>>]}

sd_frame == <<_is_locked, _is_memmap, _is_shared, _lock_parents_weakrefs,
              _last_op_queue, _lock_content, regions, stores, map_call,
              shape_call, keys_call, at_call, stack_call, shm, workers, ret>>

\* self.state_dict(destination, prefix, flatten=flatten)
StateDict(self, destination, prefix, flatten) ==
  /\ sd_call.op = "none"
  /\ LET r == state_dict(self, destination, prefix, flatten)
     IN sd_call' = [op |-> "state_dict", self |-> self, destination |-> destination,
                    prefix |-> prefix, flatten |-> flatten, exc |-> r.exc, out |-> r.out]
  /\ UNCHANGED sd_frame

\* the root keys state_dict walks: those of the container, of the
\* flattened container in flat mode
source_keys(self, flatten) ==
  root_keys(IF flatten THEN _flatten_keys_outplace(self.sub, separator).result ELSE self.sub)

\* C21: state_dict raises whenever a key of the container at the level it
\* walks is named __batch_size or __device, for every prefix, nested or flat
C21_ReservedKeyRaises ==
  (sd_call.op = "state_dict"
     /\ source_keys(sd_call.self, sd_call.flatten) \cap {__batch_size, __device} # {})
    => sd_call.exc = "KeyError"

\* self.is_empty(): no leaf at any depth
is_empty(self) == items(self.sub, <<>>) = <<>>

\* state_dict.pop(key) on the copy: the mapping without the key
without(mapping, key) ==
  IF index(mapping, key) = 0 THEN mapping
  ELSE SubSeq(mapping, 1, index(mapping, key) - 1)
         \o SubSeq(mapping, index(mapping, key) + 1, Len(mapping))

RECURSIVE _is_empty_dict(_)
_is_empty_dict(sd) ==
  \A i \in 1..Len(sd) :
     \/ sd[i].key \in {__batch_size, __device}
     \/ sd[i].value.kind = "dict" /\ _is_empty_dict(sd[i].value.sub)

_is_empty_dict_key(sd, key) ==
  /\ sd[index(sd, key)].value.kind = "dict"
  /\ _is_empty_dict(sd[index(sd, key)].value.sub)

check_is_empty(target, key) ==
  /\ target.sub[index(target.sub, key)].value.kind = "td"
  /\ is_empty(target.sub[index(target.sub, key)].value)

\* self.batch_size = batch_size: a sub-container with fewer batch
\* dimensions takes the new size as well
RECURSIVE batch_size_setter(_, _)
batch_size_setter(self, new_size) ==
  [self EXCEPT
     !.batch_size = new_size,
     !.sub = [i \in 1..Len(self.sub) |->
                IF self.sub[i].value.kind = "td" /\ self.sub[i].value.batch_size = "[]"
                THEN entry(self.sub[i].key, batch_size_setter(self.sub[i].value, new_size))
                ELSE self.sub[i]]]

LoadDone(self) == [exc |-> "none", self |-> self]
LoadRaise(exc, self) == [exc |-> exc, self |-> self]

\* the containers unflatten_keys built, with the batch size and device of
\* the container they stand in
RECURSIVE retyped(_, _, _)
retyped(c, bs, dev) ==
  [i \in 1..Len(c) |->
     IF c[i].value.kind = "td"
     THEN entry(c[i].key, TensorDict(retyped(c[i].value.sub, bs, dev), bs, dev))
     ELSE c[i]]

\* self.update(other): a sub-container is updated where one stands, any
\* other value is set
RECURSIVE td_update(_, _)
td_update(c, other) ==
  IF other = <<>> THEN c
  ELSE LET key == Head(other).key
           value == Head(other).value
           i == index(c, key)
       IN IF value.kind = "td" /\ i # 0 /\ c[i].value.kind = "td"
          THEN td_update([c EXCEPT ![i].value.sub = td_update(@, value.sub)], Tail(other))
          ELSE td_update(put(c, key, value), Tail(other))

\* what self shows after in-place writes into the leaves of its flattened
\* copy, which holds the same tensors
RECURSIVE write_through(_, _, _)
write_through(c, prefix, self_flatten) ==
  [i \in 1..Len(c) |->
     LET j == index(self_flatten, join(separator, Append(prefix, c[i].key)))
     IN IF c[i].value.kind = "td"
        THEN entry(c[i].key,
                   [c[i].value EXCEPT
                      !.sub = write_through(@, Append(prefix, c[i].key), self_flatten)])
        ELSE IF j # 0 /\ self_flatten[j].value.kind = "leaf"
        THEN entry(c[i].key, self_flatten[j].value)
        ELSE c[i]]

RECURSIVE load_plain(_, _, _, _)
RECURSIVE load_loop(_, _, _, _)
\* the loop over state_dict.items() that writes the entries
load_loop(self, state_dict_items, strict, assign) ==
  IF state_dict_items = <<>> THEN LoadDone(self)
  ELSE LET key == Head(state_dict_items).key
           item == Head(state_dict_items).value
           i == index(self.sub, key)
           dest == IF i = 0 THEN TensorDict(<<>>, self.batch_size, self.device)
                   ELSE self.sub[i].value
           inner == load_plain(dest, item.sub, strict, assign)
           \* dest is the sub-container of self when there is one
           written == IF i = 0 THEN self ELSE [self EXCEPT !.sub[i].value = inner.self]
       IN IF item.kind = "dict"
          THEN IF dest.kind # "td" THEN LoadRaise("AttributeError", self)
               ELSE IF inner.exc # "none" THEN LoadRaise(inner.exc, written)
               ELSE IF assign
               THEN load_loop([self EXCEPT !.sub = put(@, key, inner.self)],
                              Tail(state_dict_items), strict, assign)
               ELSE IF i = 0 THEN LoadRaise("KeyError", self)
               ELSE load_loop(written, Tail(state_dict_items), strict, assign)
          ELSE IF assign
          THEN load_loop([self EXCEPT !.sub = put(@, key, item)],
                         Tail(state_dict_items), strict, assign)
          ELSE IF i = 0 THEN LoadRaise("KeyError", self)
          ELSE IF self.sub[i].value.kind # "leaf" THEN LoadRaise("TypeError", self)
          ELSE load_loop([self EXCEPT !.sub[i].value = item],
                         Tail(state_dict_items), strict, assign)

\* load_state_dict with from_flatten=False
load_plain(self, sd, strict, assign) ==
  LET state_dict_copy == without(without(sd, __batch_size), __device)
      new_size == sd[index(sd, __batch_size)].value.val
      device == IF index(sd, __device) = 0 THEN "None"
                ELSE sd[index(sd, __device)].value.val
      set_sd == root_keys(state_dict_copy)
      set_td == root_keys(self.sub)
      resized == batch_size_setter(self, new_size)
  IN IF index(sd, __batch_size) = 0 THEN LoadRaise("KeyError", self)
     ELSE IF /\ strict /\ set_sd # set_td
             /\ \/ ~ \A key \in set_td \ set_sd : check_is_empty(self, key)
                \/ ~ \A key \in set_sd \ set_td : _is_empty_dict_key(state_dict_copy, key)
     THEN LoadRaise("RuntimeError: key sets", self)
     ELSE IF device # "None" /\ self.device # "None" /\ device # self.device
     THEN LoadRaise("RuntimeError: device", resized)
     ELSE load_loop(resized, state_dict_copy, strict, assign)

\* a key of self, at any depth, holds a dot
has_dot(self) ==
  \E p \in paths(self.sub, <<>>) :
     \E i \in 1..Len(p.path) : contains(p.path[i], separator)

load_state_dict(self, sd, strict, assign, from_flatten) ==
  LET flat == _flatten_keys_outplace(self.sub, separator)
      self_flatten == [self EXCEPT !.sub = flat.result]
      inner == load_plain(self_flatten, sd, strict, assign)
      unflat == unflatten_keys(inner.self.sub, separator, FALSE)
  IN IF ~from_flatten THEN load_plain(self, sd, strict, assign)
     ELSE IF flat.exc # "none" THEN LoadRaise(flat.exc, self)
     ELSE IF ~assign
     THEN [exc |-> inner.exc,
           self |-> [self EXCEPT !.sub = write_through(@, <<>>, inner.self.sub)]]
     ELSE IF inner.exc # "none" THEN LoadRaise(inner.exc, self)
     ELSE IF has_dot(self) THEN LoadRaise("RuntimeError: dot", self)
     ELSE IF unflat.exc # "none" THEN LoadRaise(unflat.exc, self)
     ELSE LoadDone([self EXCEPT
                      !.sub = td_update(@, retyped(unflat.result, self.batch_size,
                                                   self.device))])

\* the receivers of load_state_dict, and the state dicts loaded: those
\* state_dict gives for containers of the same kind on any device
LoadNames == {<<"a">>, <<"b">>}
LoadSubs(val) == {<<>>, <<entry(<<"b">>, tensor(val))>>}
LoadSelves ==
  UNION {{TensorDict(c, "[]", dev) : c \in SdEntries(LoadNames, LoadSubs("t0"), "t0", "[]", dev)} :
           dev \in SdDevices}
LoadSources ==
  UNION {{TensorDict(c, bs, dev) : c \in SdEntries(LoadNames, LoadSubs("t1"), "t1", bs, dev)} :
           bs \in SdSizes, dev \in SdDevices \cup {"cuda"}}
StateDicts ==
  {state_dict(source, NoDestination, <<>>, flatten).out :
     source \in LoadSources, flatten \in BOOLEAN}

\* self.load_state_dict(sd, strict, assign, from_flatten)
LoadStateDict(self, sd, strict, assign, from_flatten) ==
  /\ sd_call.op = "none"
  /\ LET r == load_state_dict(self, sd, strict, assign, from_flatten)
     IN sd_call' = [op |-> "load_state_dict", self |-> self, state_dict |-> sd,
                    strict |-> strict, assign |-> assign, from_flatten |-> from_flatten,
                    exc |-> r.exc, after |-> r.self]
  /\ UNCHANGED sd_frame

\* C30: when load_state_dict raises because the key sets do not match in
\* strict mode or because the devices differ, the container is as it was:
\* same batch size, same entries
C30_FailedLoadLeavesSelf ==
  (sd_call.op = "load_state_dict"
     /\ sd_call.exc \in {"RuntimeError: key sets", "RuntimeError: device"})
    => sd_call.after = sd_call.self

\* one call is made, on a container fresh from construction
NextSd ==
  /\ sd_call.op = "none"
  /\ \/ \E self \in SdSources, destination \in Destinations, prefix \in Prefixes,
           flatten \in BOOLEAN : StateDict(self, destination, prefix, flatten)
     \/ \E self \in LoadSelves, sd \in StateDicts, strict \in BOOLEAN,
           assign \in BOOLEAN, from_flatten \in BOOLEAN :
             LoadStateDict(self, sd, strict, assign, from_flatten)
SpecSd == Init /\ [][NextSd]_vars

(***************************************************************************)
(* Stacking non-tensor leaves                                              *)
(***************************************************************************)
\* the payloads: Python numbers, a string, and one-element tensors
Payloads ==
  {[type |-> "int", v |-> 0], [type |-> "int", v |-> 1], [type |-> "bool", v |-> 1],
   [type |-> "str", v |-> 7], [type |-> "Tensor", v |-> 0], [type |-> "Tensor", v |-> 1]}

\* a == b in Python: numbers compare by value whatever their type, a string
\* equals the same string only; tensors of one shape compare by element
_check_equal(a, b) ==
  IF a.type = "Tensor" \/ b.type = "Tensor" THEN a.v = b.v
  ELSE IF a.type = "str" \/ b.type = "str" THEN a.type = b.type /\ a.v = b.v
  ELSE a.v = b.v

NonTensorData(data, shape) ==
  [kind |-> "NonTensorData", data |-> data, batch_size |-> shape,
   tensordicts |-> <<>>, stack_dim |-> 0]
NonTensorStack(list_of_non_tensor, stack_dim) ==
  [kind |-> "NonTensorStack", data |-> <<>>, batch_size |-> <<>>,
   tensordicts |-> list_of_non_tensor, stack_dim |-> stack_dim]

\* list.insert(i, x) of Python: a negative i counts from the end of the
\* list as it is, and what falls outside is clipped
list_insert(l, i, x) ==
  LET j == IF i < 0 THEN (IF Len(l) + i < 0 THEN 0 ELSE Len(l) + i)
           ELSE IF i > Len(l) THEN Len(l) ELSE i
  IN SubSeq(l, 1, j) \o <<x>> \o SubSeq(l, j + 1, Len(l))

_stack_non_tensor(list_of_non_tensor, dim) ==
  LET first == list_of_non_tensor[1]
  IN IF /\ \A i \in 1..Len(list_of_non_tensor) :
              list_of_non_tensor[i].kind = "NonTensorData"
        /\ \A i \in 2..Len(list_of_non_tensor) :
              _check_equal(list_of_non_tensor[i].data, first.data)
     THEN NonTensorData(first.data,
                        list_insert(first.batch_size, dim, Len(list_of_non_tensor)))
     ELSE NonTensorStack(list_of_non_tensor, dim)

\* NonTensorData.tolist and NonTensorStack.tolist on leaves without batch
\* dimensions and on a stack along dimension 0
tolist(self) ==
  IF self.kind = "NonTensorData" THEN <<self.data>>
  ELSE [i \in 1..Len(self.tensordicts) |-> self.tensordicts[i].data]

\* the attribute read self.data
data_read(self) ==
  IF self.kind = "NonTensorStack" THEN [exc |-> "AttributeError", data |-> <<>>]
  ELSE [exc |-> "none", data |-> <<self.data>>]

\* the lists stacked: one to three leaves of one batch shape, tensors
\* only with tensors, and the dims torch.stack takes for that shape
StackShapes == {<<>>, <<1>>, <<2>>}
StackLists ==
  UNION {{l \in [1..n -> Payloads] :
            \A i, j \in 1..n : (l[i].type = "Tensor") = (l[j].type = "Tensor")} :
           n \in 1..3}
StackDims(shape) == (0 - Len(shape) - 1)..Len(shape)

stack_frame == <<_is_locked, _is_memmap, _is_shared, _lock_parents_weakrefs,
                 _last_op_queue, _lock_content, regions, stores, map_call,
                 shape_call, keys_call, at_call, sd_call, shm, workers, ret>>

\* torch.stack(list_of_non_tensor, dim)
Stack(payloads, shape, dim) ==
  LET list_of_non_tensor == [i \in 1..Len(payloads) |-> NonTensorData(payloads[i], shape)]
      result == _stack_non_tensor(list_of_non_tensor, dim)
  IN /\ stack_call' = [op |-> "stack", list_of_non_tensor |-> list_of_non_tensor,
                       dim |-> dim, result |-> result, data |-> data_read(result)]
     /\ UNCHANGED stack_frame

NextStack ==
  /\ stack_call.op = "none"
  /\ \E payloads \in StackLists, shape \in StackShapes :
        \E dim \in StackDims(shape) : Stack(payloads, shape, dim)
SpecStack == Init /\ [][NextStack]_vars

\* the position dim names in a shape that has the new dimension
at_dim(shape, dim) == IF dim < 0 THEN Len(shape) + 1 + dim ELSE dim + 1

\* C22: stacking N leaves whose data all compare equal gives one leaf with
\* that data whose batch shape is the leaves' with N inserted at dim;
\* otherwise it gives a stack that holds the leaves in their order and
\* whose data cannot be read
C22_StackEqualOrStack ==
  stack_call.op = "stack" =>
    LET l == stack_call.list_of_non_tensor
        r == stack_call.result
    IN IF \A i \in 1..Len(l) : _check_equal(l[i].data, l[1].data)
       THEN /\ r.kind = "NonTensorData"
            /\ _check_equal(r.data, l[1].data)
            /\ Len(r.batch_size) = Len(l[1].batch_size) + 1
            /\ r.batch_size[at_dim(r.batch_size, stack_call.dim)] = Len(l)
            /\ Remove(r.batch_size, at_dim(r.batch_size, stack_call.dim) - 1)
                 = l[1].batch_size
       ELSE /\ r.kind = "NonTensorStack"
            /\ r.tensordicts = l
            /\ tolist(r) = [i \in 1..Len(l) |-> l[i].data]
            /\ stack_call.data.exc = "AttributeError"

(***************************************************************************)
(* Non-tensor values shared between processes                              *)
(***************************************************************************)
\* Python values: a type and the content as integers (a number, the code
\* points of a string, the items of a list; a float in tenths)
Py(type, v) == [type |-> type, v |-> v]
RECURSIVE Rep(_, _)
Rep(x, n) == IF n = 0 THEN <<>> ELSE <<x>> \o Rep(x, n - 1)

\* mp.Array(ctypes.c_char, 100)
ArraySize == 100

\* str.encode("utf-8") and bytes.decode("utf-8") for code points below 2048
RECURSIVE encode(_)
encode(chars) ==
  IF chars = <<>> THEN <<>>
  ELSE (IF Head(chars) < 128 THEN <<Head(chars)>>
        ELSE <<192 + (Head(chars) \div 64), 128 + (Head(chars) % 64)>>)
         \o encode(Tail(chars))
RECURSIVE decode(_)
decode(bytes) ==
  IF bytes = <<>> THEN [exc |-> "none", chars |-> <<>>]
  ELSE IF bytes[1] < 128
  THEN LET r == decode(Tail(bytes))
       IN [exc |-> r.exc, chars |-> <<bytes[1]>> \o r.chars]
  ELSE IF bytes[1] >= 192 /\ Len(bytes) >= 2 /\ bytes[2] >= 128 /\ bytes[2] < 192
  THEN LET r == decode(SubSeq(bytes, 3, Len(bytes)))
       IN [exc |-> r.exc, chars |-> <<(bytes[1] - 192) * 64 + (bytes[2] - 128)>> \o r.chars]
  ELSE [exc |-> "UnicodeDecodeError", chars |-> <<>>]

\* what a ctypes.c_int keeps of a Python integer; those tried fit in it
c_int(n) == n

Unknown == [known |-> FALSE, value |-> Py("int", <<0>>)]
Known(value) == [known |-> TRUE, value |-> value]

\* the shared object: its kind, its C type or the type it was made from,
\* its cells; and, for the record, the value of the last update that
\* completed and the number of updates running
Shared(kind, ctype, cells) ==
  [kind |-> kind, ctype |-> ctype, cells |-> cells, exc |-> "none",
   committed |-> Unknown, writers |-> 0]
ShareRaise(exc) ==
  [kind |-> "raised", ctype |-> "", cells |-> <<>>, exc |-> exc,
   committed |-> Unknown, writers |-> 0]

_share_memory_nontensor(data) ==
  IF data.type \in {"int", "bool"} THEN Shared("Synchronized", "c_int", <<c_int(data.v[1])>>)
  ELSE IF data.type = "float" THEN Shared("Synchronized", "c_double", data.v)
  ELSE IF data.type = "bytes" THEN ShareRaise("TypeError")
  ELSE IF data.type = "dict" THEN Shared("DictProxy", "", data.v)
  ELSE IF data.type = "str"
  THEN IF Len(encode(data.v)) > ArraySize THEN ShareRaise("ValueError")
       ELSE Shared("SynchronizedArray", "c_char",
                   encode(data.v) \o Rep(0, ArraySize - Len(encode(data.v))))
  ELSE IF data.type = "list" THEN Shared("ListProxy", "", data.v)
  ELSE Shared("plain", data.type, data.v)

\* _from_shared_nontensor on anything but an array: one access
_from_shared_nontensor(nontensor) ==
  IF nontensor.kind = "ListProxy" THEN Py("list", nontensor.cells)
  ELSE IF nontensor.kind = "DictProxy" THEN Py("dict", nontensor.cells)
  ELSE IF nontensor.kind = "Synchronized"
  THEN Py(IF nontensor.ctype = "c_int" THEN "int" ELSE "float", nontensor.cells)
  ELSE Py(nontensor.ctype, nontensor.cells)

\* nontensor.value = val on a Synchronized
set_value(nontensor, val) ==
  IF nontensor.ctype = "c_int"
  THEN IF val.type \in {"int", "bool"}
       THEN [exc |-> "none", cells |-> <<c_int(val.v[1])>>]
       ELSE [exc |-> "TypeError", cells |-> nontensor.cells]
  ELSE IF val.type \in {"int", "bool"} THEN [exc |-> "none", cells |-> <<10 * val.v[1]>>]
  ELSE IF val.type = "float" THEN [exc |-> "none", cells |-> val.v]
  ELSE [exc |-> "TypeError", cells |-> nontensor.cells]

\* nontensor.extend(val) and nontensor.update(val) on a proxy just emptied
refill(nontensor, val) ==
  IF nontensor.kind = "DictProxy"
  THEN IF val.type = "dict" THEN [exc |-> "none", cells |-> val.v]
       ELSE [exc |-> "TypeError", cells |-> <<>>]
  ELSE IF val.type \in {"int", "bool", "float"} THEN [exc |-> "TypeError", cells |-> <<>>]
  ELSE [exc |-> "none", cells |-> val.v]

\* one turn of the loop `for i, byte in enumerate(nontensor)` of
\* _update_shared_nontensor, i counted from 1
array_step(cells, val, i) ==
  IF i <= Len(val) THEN [stop |-> FALSE, cells |-> [cells EXCEPT ![i] = val[i]]]
  ELSE IF cells[i] = 0 THEN [stop |-> TRUE, cells |-> cells]
  ELSE [stop |-> FALSE, cells |-> [cells EXCEPT ![i] = 0]]

\* what each process does: at most one in-place update, then one read
Worker(pc, val, i, acc, exc, updated, result, expect) ==
  [pc |-> pc, val |-> val, i |-> i, acc |-> acc, exc |-> exc, updated |-> updated,
   result |-> result, expect |-> expect]
Fresh == Worker("idle", Py("int", <<0>>), 0, <<>>, "none", FALSE, Py("int", <<0>>), Unknown)

\* the values shared and written
PyValues ==
  {Py("int", <<1>>), Py("int", <<2>>), Py("bool", <<1>>), Py("float", <<15>>),
   Py("str", <<97>>), Py("str", <<98, 0, 99>>), Py("str", <<233, 100>>),
   Py("list", <<1>>), Py("dict", <<4>>), Py("tuple", <<5>>), Py("bytes", <<6>>)}
\* a string that does not fit the array
TooLong == Py("str", Rep(97, ArraySize + 1))

shm_frame == <<_is_locked, _is_memmap, _is_shared, _lock_parents_weakrefs,
               _last_op_queue, _lock_content, regions, stores, map_call,
               shape_call, keys_call, at_call, sd_call, stack_call, ret>>

\* memmap_(share_non_tensor=True) on a leaf that holds data, and the
\* processes started on it
Share(data) ==
  /\ shm = Unshared
  /\ shm' = _share_memory_nontensor(data)
  /\ workers' = [p \in Procs |-> Fresh]
  /\ UNCHANGED shm_frame

\* a read that runs while an update starts may see any of it
disturbed(p) ==
  [q \in Procs |->
     IF q # p /\ workers[q].pc = "read" THEN [workers[q] EXCEPT !.expect = Unknown]
     ELSE workers[q]]

\* the update is over: with val in place, or with what it raised
finished(w, exc) == [w EXCEPT !.pc = "idle", !.exc = exc, !.updated = TRUE]
settled(nontensor, cells, val, exc, started) ==
  [nontensor EXCEPT !.cells = cells,
                    !.committed = IF exc = "none" THEN Known(val) ELSE Unknown,
                    !.writers = @ - started]

\* process p calls _update_shared_nontensor(nontensor, val): what is done
\* in one access is done here, the loops are entered
UpdateCall(p, val) ==
  /\ shm.kind \notin {"unshared", "raised"}
  /\ workers[p].pc = "idle" /\ ~workers[p].updated
  /\ LET started == [disturbed(p) EXCEPT ![p] = [workers[p] EXCEPT !.pc = "update",
                                                     !.val = val, !.i = 1]]
     IN IF shm.kind \in {"ListProxy", "DictProxy"}
        THEN /\ shm' = [shm EXCEPT !.cells = <<>>, !.writers = @ + 1]
             /\ workers' = started
        ELSE IF shm.kind = "Synchronized"
        THEN /\ shm' = settled(shm, set_value(shm, val).cells, val,
                               set_value(shm, val).exc, 0)
             /\ workers' = [disturbed(p) EXCEPT
                              ![p] = finished(workers[p], set_value(shm, val).exc)]
        ELSE IF shm.kind = "SynchronizedArray"
        THEN IF val.type # "str"
             THEN /\ shm' = shm
                  /\ workers' = [workers EXCEPT ![p] = finished(@, "AttributeError")]
             ELSE /\ shm' = [shm EXCEPT !.writers = @ + 1]
                  /\ workers' = [started EXCEPT ![p].val = Py("bytes", encode(val.v))]
        ELSE /\ shm' = shm
             /\ workers' = [workers EXCEPT ![p] = finished(@, "NotImplementedError")]
  /\ UNCHANGED shm_frame

\* the next access of a running update
UpdateStep(p) ==
  /\ workers[p].pc = "update"
  /\ LET w == workers[p]
         val == IF shm.kind = "SynchronizedArray" THEN Py("str", decode(w.val.v).chars)
                ELSE w.val
         r == refill(shm, w.val)
         a == array_step(shm.cells, w.val.v, w.i)
     IN IF shm.kind \in {"ListProxy", "DictProxy"}
        THEN /\ shm' = settled(shm, r.cells, val, r.exc, 1)
             /\ workers' = [workers EXCEPT ![p] = finished(@, r.exc)]
        ELSE IF w.i > ArraySize
        THEN /\ shm' = settled(shm, shm.cells, val, "none", 1)
             /\ workers' = [workers EXCEPT ![p] = finished(@, "none")]
        ELSE IF a.stop
        THEN /\ shm' = settled(shm, a.cells, val, "none", 1)
             /\ workers' = [workers EXCEPT ![p] = finished(@, "none")]
        ELSE /\ shm' = [shm EXCEPT !.cells = a.cells]
             /\ workers' = [workers EXCEPT ![p].i = @ + 1]
  /\ UNCHANGED shm_frame

\* the read is over
returned(w, exc, result) == [w EXCEPT !.pc = "done", !.exc = exc, !.result = result]

\* process p reads the value: _from_shared_nontensor(nontensor)
ReadCall(p) ==
  /\ shm.kind \notin {"unshared", "raised"}
  /\ workers[p].pc = "idle"
  /\ LET expect == IF shm.writers = 0 THEN shm.committed ELSE Unknown
     IN IF shm.kind = "SynchronizedArray"
        THEN workers' = [workers EXCEPT ![p] = [@ EXCEPT !.pc = "read", !.i = 1,
                                                  !.acc = <<>>, !.expect = expect]]
        ELSE workers' = [workers EXCEPT
                           ![p] = returned([@ EXCEPT !.expect = expect], "none",
                                           _from_shared_nontensor(shm))]
  /\ UNCHANGED <<shm, shm_frame>>

\* one turn of the loop `for byte in nontensor` and the decoding after it
ReadStep(p) ==
  /\ workers[p].pc = "read"
  /\ LET w == workers[p]
         r == decode(w.acc)
     IN IF w.i > ArraySize \/ shm.cells[w.i] = 0
        THEN workers' = [workers EXCEPT ![p] = returned(@, r.exc, Py("str", r.chars))]
        ELSE workers' = [workers EXCEPT ![p].acc = Append(@, shm.cells[w.i]),
                                        ![p].i = @ + 1]
  /\ UNCHANGED <<shm, shm_frame>>

NextShared ==
  \/ \E data \in PyValues \cup {TooLong} : Share(data)
  \/ \E p \in Procs, val \in PyValues : UpdateCall(p, val)
  \/ \E p \in Procs : UpdateStep(p)
  \/ \E p \in Procs : ReadCall(p)
  \/ \E p \in Procs : ReadStep(p)
SpecShared == Init /\ [][NextShared]_vars

\* C23: a read that starts after an in-place update to v has completed,
\* with no update running while it lasts, returns v: same type, same
\* content
C23_ReadReturnsLastUpdate ==
  \A p \in Procs :
     (workers[p].pc = "done" /\ workers[p].expect.known)
       => workers[p].exc = "none" /\ workers[p].result = workers[p].expect.value

====
